---- MODULE Spec2Model ----
(***************************************************************************)
(* A model of the selection-and-scoring generation engine of ogtool-content: *)
(* the retry controller (lib/core/calendar-generator.ts), the commit of an  *)
(* accepted calendar into the StateStore (lib/state/state-manager.ts), the  *)
(* comment-thread orchestrator (lib/engines/comment-engine.ts) and the      *)
(* quality scorer (lib/scoring/*.ts).                                       *)
(*                                                                         *)
(* Scores are JavaScript numbers.  The scorer subtracts decimal penalties  *)
(* and multiplies by decimal weights, none of which is a binary fraction,  *)
(* so the arithmetic is modelled as IEEE-754 binary64 arithmetic: a number *)
(* is an exact multiple of a power of two, held as a natural number in     *)
(* 14-bit limbs, and every operation rounds to 53 significant bits, ties   *)
(* to even.                                                                *)
(***************************************************************************)
EXTENDS Integers, Sequences, FiniteSets, TLC

(***************************************************************************)
(* Natural numbers of any size: little-endian sequences of 14-bit limbs.   *)
(***************************************************************************)
Limb == 2^14

At(s, i) == IF i >= 1 /\ i <= Len(s) THEN s[i] ELSE 0

RECURSIVE Norm(_)
Norm(s) == IF s = << >> THEN s
           ELSE IF s[Len(s)] = 0 THEN Norm(SubSeq(s, 1, Len(s) - 1)) ELSE s

RECURSIVE FromInt(_)
FromInt(n) == IF n = 0 THEN << >> ELSE <<n % Limb>> \o FromInt(n \div Limb)

RECURSIVE ToInt(_)
ToInt(s) == IF s = << >> THEN 0 ELSE s[1] + Limb * ToInt(Tail(s))

Max2(a, b) == IF a >= b THEN a ELSE b

RECURSIVE AddFrom(_, _, _, _)
AddFrom(a, b, i, carry) ==
    IF i > Max2(Len(a), Len(b))
    THEN (IF carry = 0 THEN << >> ELSE <<carry>>)
    ELSE LET t == At(a, i) + At(b, i) + carry
         IN  <<t % Limb>> \o AddFrom(a, b, i + 1, t \div Limb)

BigAdd(a, b) == Norm(AddFrom(a, b, 1, 0))

\* a - b, for a >= b
RECURSIVE SubFrom(_, _, _, _)
SubFrom(a, b, i, borrow) ==
    IF i > Len(a) THEN << >>
    ELSE LET t == At(a, i) - At(b, i) - borrow
         IN  IF t < 0 THEN <<t + Limb>> \o SubFrom(a, b, i + 1, 1)
                      ELSE <<t>> \o SubFrom(a, b, i + 1, 0)

BigSub(a, b) == Norm(SubFrom(a, b, 1, 0))

\* -1, 0, 1 as a < b, a = b, a > b (a and b normalised)
RECURSIVE CmpFrom(_, _, _)
CmpFrom(a, b, i) ==
    IF i = 0 THEN 0
    ELSE IF At(a, i) < At(b, i) THEN -1
    ELSE IF At(a, i) > At(b, i) THEN 1
    ELSE CmpFrom(a, b, i - 1)

BigCmp(a, b) == CmpFrom(a, b, Max2(Len(a), Len(b)))

RECURSIVE ColumnSum(_, _, _, _)
ColumnSum(a, b, k, i) ==
    IF i > k THEN 0 ELSE At(a, i) * At(b, k + 1 - i) + ColumnSum(a, b, k, i + 1)

RECURSIVE MulFrom(_, _, _, _)
MulFrom(a, b, k, carry) ==
    IF k > Len(a) + Len(b)
    THEN (IF carry = 0 THEN << >> ELSE <<carry>>)
    ELSE LET t == ColumnSum(a, b, k, 1) + carry
         IN  <<t % Limb>> \o MulFrom(a, b, k + 1, t \div Limb)

BigMul(a, b) == Norm(MulFrom(a, b, 1, 0))

\* floor(a / q) and a mod q for a small divisor q, from the highest limb down
RECURSIVE DivSmallFrom(_, _, _, _)
DivSmallFrom(a, q, i, rem) ==
    IF i = 0 THEN [quot |-> << >>, rem |-> rem]
    ELSE LET t == rem * Limb + a[i]
             rest == DivSmallFrom(a, q, i - 1, t % q)
         IN  [quot |-> rest.quot \o <<t \div q>>, rem |-> rest.rem]

BigDivSmall(a, q) ==
    LET r == DivSmallFrom(a, q, Len(a), 0) IN [quot |-> Norm(r.quot), rem |-> r.rem]

RECURSIVE IntBitLen(_)
IntBitLen(n) == IF n = 0 THEN 0 ELSE 1 + IntBitLen(n \div 2)

BitLen(s) == IF s = << >> THEN 0 ELSE 14 * (Len(s) - 1) + IntBitLen(s[Len(s)])

\* bit j of s, j counted from 0
Bit(s, j) == (At(s, (j \div 14) + 1) \div 2^(j % 14)) % 2

\* the j low bits of s are all zero
LowZero(s, j) ==
    /\ \A i \in 1..(j \div 14) : At(s, i) = 0
    /\ At(s, (j \div 14) + 1) % 2^(j % 14) = 0

\* s with its k low bits cleared
ZeroLow(s, k) ==
    [i \in 1..Len(s) |->
        IF i <= k \div 14 THEN 0
        ELSE IF i = (k \div 14) + 1 THEN s[i] - (s[i] % 2^(k % 14))
        ELSE s[i]]

Pow2Big(k) == [i \in 1..((k \div 14) + 1) |-> IF i = (k \div 14) + 1 THEN 2^(k % 14) ELSE 0]

(***************************************************************************)
(* binary64 rounding: the nearest number of 53 significant bits, ties to   *)
(* even.  sticky says that the exact value lies above s (bits were lost    *)
(* below s already).                                                       *)
(***************************************************************************)
RoundSticky(s, sticky) ==
    LET L == BitLen(s)
        k == L - 53
    IN  IF L <= 53 THEN s
        ELSE LET up == /\ Bit(s, k - 1) = 1
                       /\ (~LowZero(s, k - 1) \/ sticky \/ Bit(s, k) = 1)
             IN  IF up THEN BigAdd(Norm(ZeroLow(s, k)), Pow2Big(k))
                       ELSE Norm(ZeroLow(s, k))

Round53(s) == RoundSticky(s, FALSE)

(***************************************************************************)
(* A double: sign and magnitude.  Scores, penalties and weights are held   *)
(* in units of 2^-56 (every one of them is a multiple of it); a product of *)
(* two of them is held in units of 2^-112.                                 *)
(***************************************************************************)
Dbl(neg, mag) == [neg |-> neg /\ mag # << >>, mag |-> mag]

\* the double written as the decimal literal p/q (p, q small), in units of 2^-56
Lit(p, q) ==
    LET d == BigDivSmall(<<0, 0, 0, 0, 0, 0, 0, 0>> \o FromInt(p), q)
        r == RoundSticky(d.quot, d.rem # 0)
    IN  Dbl(FALSE, Norm(SubSeq(r, 5, Len(r))))

DNeg(x) == Dbl(~x.neg, x.mag)

\* x + y, rounded
FAdd(x, y) ==
    IF x.neg = y.neg THEN Dbl(x.neg, Round53(BigAdd(x.mag, y.mag)))
    ELSE IF BigCmp(x.mag, y.mag) >= 0 THEN Dbl(x.neg, Round53(BigSub(x.mag, y.mag)))
    ELSE Dbl(y.neg, Round53(BigSub(y.mag, x.mag)))

\* x - y, rounded
FSub(x, y) == FAdd(x, DNeg(y))

\* x * y, rounded; the result is in units of 2^-(a+b) for x in 2^-a, y in 2^-b
FMul(x, y) == Dbl(x.neg # y.neg, Round53(BigMul(x.mag, y.mag)))

\* x * n for a small natural n, rounded, in the units of x
FMulInt(x, n) == Dbl(x.neg, Round53(BigMul(x.mag, FromInt(n))))

DLess(x, y) ==
    IF x.neg /\ ~y.neg THEN TRUE
    ELSE IF ~x.neg /\ y.neg THEN FALSE
    ELSE IF x.neg THEN BigCmp(x.mag, y.mag) > 0
    ELSE BigCmp(x.mag, y.mag) < 0

\* Math.min and Math.max
DMin(x, y) == IF DLess(y, x) THEN y ELSE x
DMax(x, y) == IF DLess(x, y) THEN y ELSE x

\* Math.round of a double held in units of 2^-frac: the nearest integer, a half
\* rounding towards +Infinity
MathRound(x, frac) ==
    LET limbs == [i \in 1..(Len(x.mag) - frac \div 14) |-> x.mag[i + frac \div 14]]
        whole == ToInt(limbs)
        half == Bit(x.mag, frac - 1) = 1
    IN  IF x.neg THEN 0 - (whole + (IF half /\ ~LowZero(x.mag, frac - 1) THEN 1 ELSE 0))
        ELSE whole + (IF half THEN 1 ELSE 0)

(***************************************************************************)
(* Small helpers on sequences and sets.                                    *)
(***************************************************************************)
Range(s) == {s[i] : i \in 1..Len(s)}

RECURSIVE SumSeq(_)
SumSeq(s) == IF s = << >> THEN 0 ELSE s[1] + SumSeq(Tail(s))

RECURSIVE SelectSeqBy(_, _)
SelectSeqBy(s, keep) ==
    IF s = << >> THEN << >>
    ELSE (IF s[1] \in keep THEN <<s[1]>> ELSE << >>) \o SelectSeqBy(Tail(s), keep)

\* the elements of s in the order of their first occurrence (a JS Set / Object keys)
RECURSIVE Unique(_)
Unique(s) ==
    IF s = << >> THEN << >>
    ELSE LET front == Unique(SubSeq(s, 1, Len(s) - 1))
         IN  IF s[Len(s)] \in Range(front) THEN front ELSE Append(front, s[Len(s)])

Count(s, v) == Cardinality({i \in 1..Len(s) : s[i] = v})

\* array.sort((a, b) => a - b) on numbers
RECURSIVE InsertSorted(_, _)
InsertSorted(s, v) ==
    IF s = << >> THEN <<v>>
    ELSE IF v < s[1] THEN <<v>> \o s
    ELSE <<s[1]>> \o InsertSorted(Tail(s), v)

RECURSIVE SortNumbers(_)
SortNumbers(s) ==
    IF s = << >> THEN << >> ELSE InsertSorted(SortNumbers(SubSeq(s, 1, Len(s) - 1)), s[Len(s)])

SetMax(S) == CHOOSE m \in S : \A x \in S : x <= m
SetMin(S) == CHOOSE m \in S : \A x \in S : x >= m

(***************************************************************************)
(* The data of a weekly calendar that the scorers read.                    *)
(*   post:    post_id, subreddit, author_username, timestamp, keyword_ids, *)
(*            topic (metadata.topic, a sequence of words), title and text  *)
(*            (what the scorers observe of the title and of title + body)  *)
(*   comment: comment_id, post_id, parent_comment_id, username, timestamp, *)
(*            role, text                                                   *)
(* A timestamp is a number of minutes since Monday 00:00 local time of the *)
(* week the calendar is generated for.  A text is the record of what the   *)
(* scorers' string tests observe of it: casual (a casual marker occurs),   *)
(* lowerStart, openEnd (longer than 10 characters and no terminal          *)
(* punctuation), informalCaps, formal, professional, student, forced (an   *)
(* SEO sentence template matches), len (characters), words, sentenceWords  *)
(* (mean words per sentence).                                              *)
(***************************************************************************)
NoParent == "null"

Zero == Dbl(FALSE, << >>)
One == Lit(1, 1)
Ten == Lit(10, 1)

\* a score left as it is
Unclamped(score) == score

\* Math.max(0, Math.min(10, score))
Clamp(score) == DMax(Zero, DMin(Ten, score))

\* Math.round(x * 10) / 10, as a number of tenths
RoundTenths(x) == MathRound(FMulInt(x, 10), 56)

\* variance(values) < limit, limit = num/den, for integer values
VarianceBelow(values, num, den) ==
    LET n == Len(values)
        s == SumSeq(values)
        sq == SumSeq([i \in 1..n |-> values[i] * values[i]])
    IN  IF n = 0 THEN 0 < num
        ELSE den * (n * sq - s * s) < num * n * n

postComments(cal, post) ==
    SelectSeqBy(cal.comments, {c \in Range(cal.comments) : c.post_id = post.post_id})

\* the gaps in minutes between the comments of a post, sorted by timestamp
commentGaps(cal, post) ==
    LET cs == postComments(cal, post)
        ts == SortNumbers([i \in 1..Len(cs) |-> cs[i].timestamp])
    IN  [i \in 1..(Len(ts) - 1) |-> ts[i + 1] - ts[i]]

(***************************************************************************)
(* Naturalness                                                             *)
(***************************************************************************)
checkForImperfections(cal) ==
    LET allText == [i \in 1..Len(cal.posts) |-> cal.posts[i].title]
                     \o [i \in 1..Len(cal.comments) |-> cal.comments[i].text]
        some(f) == \E i \in 1..Len(allText) : allText[i][f]
        present == {f \in {"casual", "lowerStart", "openEnd", "informalCaps"} : some(f)}
    IN  Cardinality(present) >= 2

\* checkSentenceVariety(calendar) < 0.5: min(1, variance / 5) < 0.5
sentenceVarietyLow(cal) ==
    LET lengths == [i \in 1..Len(cal.posts) |-> cal.posts[i].title.words]
    IN  IF Len(lengths) < 2 THEN FALSE ELSE VarianceBelow(lengths, 5, 2)

checkCommentNaturalness(cal) ==
    LET comments == [i \in 1..Len(cal.comments) |-> cal.comments[i].text]
        some(f) == \E i \in 1..Len(comments) : comments[i][f]
        s1 == IF ~(\E i \in 1..Len(comments) : comments[i].len < 20)
              THEN FSub(One, Lit(2, 10)) ELSE One
        s2 == IF ~some("casual") THEN FSub(s1, Lit(3, 10)) ELSE s1
        s3 == IF VarianceBelow([i \in 1..Len(comments) |-> comments[i].len], 100, 1)
              THEN FSub(s2, Lit(2, 10)) ELSE s2
        s4 == IF some("formal") THEN FSub(s3, Lit(3, 10)) ELSE s3
    IN  IF Len(comments) = 0 THEN Lit(8, 10) ELSE DMax(Zero, s4)

RECURSIVE AddTimes(_, _, _)
AddTimes(x, y, n) == IF n = 0 THEN x ELSE AddTimes(FAdd(x, y), y, n - 1)

RECURSIVE keywordForcingFrom(_, _, _)
keywordForcingFrom(posts, i, penalty) ==
    IF i > Len(posts) THEN penalty
    ELSE LET p1 == IF posts[i].text.forced THEN FAdd(penalty, Lit(8, 10)) ELSE penalty
             p2 == IF Len(posts[i].keyword_ids) > 3
                   THEN AddTimes(p1, Lit(3, 10), Len(posts[i].keyword_ids)) ELSE p1
         IN  keywordForcingFrom(posts, i + 1, p2)

checkKeywordForcing(cal) == DMin(keywordForcingFrom(cal.posts, 1, Zero), Lit(3, 1))

scoreNaturalness(cal) ==
    LET s1 == IF ~checkForImperfections(cal) THEN FSub(Ten, Lit(15, 10)) ELSE Ten
        s2 == IF sentenceVarietyLow(cal) THEN FSub(s1, One) ELSE s1
        s3 == FSub(s2, FMulInt(FSub(One, checkCommentNaturalness(cal)), 2))
        s4 == FSub(s3, checkKeywordForcing(cal))
    IN  Clamp(s4)

(***************************************************************************)
(* Distribution                                                            *)
(***************************************************************************)
getPersonaCounts(cal) ==
    LET names == [i \in 1..Len(cal.posts) |-> cal.posts[i].author_username]
                   \o [i \in 1..Len(cal.comments) |-> cal.comments[i].username]
    IN  [u \in Range(names) |-> Count(names, u)]

checkPersonaDistribution(cal) ==
    LET personaCounts == getPersonaCounts(cal)
        counts == {personaCounts[u] : u \in DOMAIN personaCounts}
    IN  IF counts = {} THEN Zero
        ELSE IF SetMax(counts) > SetMin(counts) * 3 THEN Lit(2, 1)
        ELSE IF SetMax(counts) > SetMin(counts) * 2 THEN One
        ELSE Zero

\* no penalty for a repeated venue
noSubredditPenalty(cal) == Zero

checkSubredditDistribution(cal) ==
    LET subs == [i \in 1..Len(cal.posts) |-> cal.posts[i].subreddit]
    IN  IF \E sub \in Range(subs) : Count(subs, sub) > 1 THEN Lit(3, 1) ELSE Zero

RECURSIVE Flatten(_)
Flatten(ss) == IF ss = << >> THEN << >> ELSE ss[1] \o Flatten(Tail(ss))

checkKeywordDistribution(cal) ==
    LET kids == Flatten([i \in 1..Len(cal.posts) |-> cal.posts[i].keyword_ids])
    IN  IF \E kid \in Range(kids) : Count(kids, kid) >= 3 THEN One ELSE Zero

scoreDistribution(cal) ==
    Clamp(FSub(FSub(FSub(Ten, checkPersonaDistribution(cal)),
                    checkSubredditDistribution(cal)),
               checkKeywordDistribution(cal)))

(***************************************************************************)
(* Consistency                                                             *)
(***************************************************************************)
getUniquePersonas(cal) ==
    Unique([i \in 1..Len(cal.posts) |-> cal.posts[i].author_username]
             \o [i \in 1..Len(cal.comments) |-> cal.comments[i].username])

checkPersonaConsistency(cal, username) ==
    LET posts == SelectSeqBy(cal.posts, {p \in Range(cal.posts) : p.author_username = username})
        comments == SelectSeqBy(cal.comments,
                                {c \in Range(cal.comments) : c.username = username})
        texts == [i \in 1..Len(posts) |-> posts[i].text]
                   \o [i \in 1..Len(comments) |-> comments[i].text]
        allText == SelectSeqBy(texts, {t \in Range(texts) : t.len > 0})
        n == Len(allText)
        total == SumSeq([i \in 1..n |-> allText[i].sentenceWords])
        p1 == IF total < 5 * n \/ total > 30 * n THEN FAdd(Zero, Lit(3, 10)) ELSE Zero
        p2 == IF /\ \E i \in 1..n : allText[i].professional
                 /\ \E i \in 1..n : allText[i].student
              THEN FAdd(p1, Lit(5, 10)) ELSE p1
    IN  IF n = 0 THEN Zero ELSE p2

RECURSIVE consistencyFrom(_, _, _, _)
consistencyFrom(cal, personas, i, score) ==
    IF i > Len(personas) THEN score
    ELSE consistencyFrom(cal, personas, i + 1,
                         FSub(score, checkPersonaConsistency(cal, personas[i])))

scoreConsistency(cal) == Clamp(consistencyFrom(cal, getUniquePersonas(cal), 1, Ten))

(***************************************************************************)
(* String similarity (lib/utils/similarity.ts).  A text is a sequence of   *)
(* lower-case words without punctuation.  The square roots of the cosine   *)
(* are compared exactly: dot / sqrt(m1 * m2) > n/d as d^2 dot^2 > n^2 m1 m2.*)
(***************************************************************************)
\* the words of a text that textToVector counts
textToVector(text) ==
    LET words == SelectSeqBy(text, {w \in Range(text) : Len(w) > 2})
    IN  [w \in Range(words) |-> Count(words, w)]

RECURSIVE SumOver(_, _)
SumOver(f, S) ==
    IF S = {} THEN 0 ELSE LET x == CHOOSE x \in S : TRUE IN f[x] + SumOver(f, S \ {x})

calculateDotProduct(vec1, vec2) ==
    LET common == DOMAIN vec1 \cap DOMAIN vec2
    IN  SumOver([w \in common |-> vec1[w] * vec2[w]], common)

\* the square of calculateMagnitude(vec)
magnitudeSquared(vec) == SumOver([w \in DOMAIN vec |-> vec[w] * vec[w]], DOMAIN vec)

\* cosineSimilarity(text1, text2) > num / den
cosineAbove(text1, text2, num, den) ==
    LET vector1 == textToVector(text1)
        vector2 == textToVector(text2)
        dot == calculateDotProduct(vector1, vector2)
        m == magnitudeSquared(vector1) * magnitudeSquared(vector2)
    IN  IF m = 0 THEN 0 > num
        ELSE den * den * dot * dot > num * num * m

\* areTopicsSimilar(topic1, topic2, num / den): (cosine + jaccard) / 2 >= num / den
areTopicsSimilar(topic1, topic2, num, den) ==
    LET vector1 == textToVector(topic1)
        vector2 == textToVector(topic2)
        dot == calculateDotProduct(vector1, vector2)
        m == magnitudeSquared(vector1) * magnitudeSquared(vector2)
        inter == Cardinality(DOMAIN vector1 \cap DOMAIN vector2)
        union == Cardinality(DOMAIN vector1 \cup DOMAIN vector2)
        \* cosine >= 2 num / den - inter / union = rest / (den * union)
        rest == 2 * num * union - den * inter
    IN  IF union = 0 \/ m = 0 THEN 0 >= num
        ELSE IF rest <= 0 THEN TRUE
        ELSE dot * dot * den * den * union * union >= rest * rest * m

(***************************************************************************)
(* Diversity                                                               *)
(***************************************************************************)
LastN(s, n) == IF Len(s) <= n THEN s ELSE SubSeq(s, Len(s) - n + 1, Len(s))

checkTopicRepetition(cal, state) ==
    LET recentWeeks == LastN(state.history.weeks, 4)
        currentTopics == [i \in 1..Len(cal.posts) |-> cal.posts[i].topic]
        recentTopics == Flatten([w \in 1..Len(recentWeeks) |->
                            [i \in 1..Len(recentWeeks[w].posts) |->
                                recentWeeks[w].posts[i].topic]])
        hits == Cardinality({<<i, j>> \in (1..Len(currentTopics)) \X (1..Len(recentTopics)) :
                                cosineAbove(currentTopics[i], recentTopics[j], 3, 4)})
    IN  IF Len(recentWeeks) = 0 THEN Zero
        ELSE DMin(AddTimes(Zero, Lit(15, 10), hits), Lit(4, 1))

checkSubredditRotation(cal, state) ==
    LET recentSubs == LastN(state.patterns.subredditRotation, 6)
        hits == Cardinality({i \in 1..Len(cal.posts) :
                                cal.posts[i].subreddit \in Range(recentSubs)})
    IN  IF Len(recentSubs) = 0 THEN Zero
        ELSE DMin(AddTimes(Zero, Lit(2, 1), hits), Lit(3, 1))

\* [a, b].sort().join('+'): the unordered pair
pairKey(a, b) == {a, b}

pairCount(state, pair) ==
    IF pair \in DOMAIN state.patterns.personaPairings
    THEN state.patterns.personaPairings[pair] ELSE 0

\* the (post, comment) index pairs whose commenter is not the post's author
extractPersonaPairings(cal) ==
    {<<i, j>> \in (1..Len(cal.posts)) \X (1..Len(cal.comments)) :
        /\ cal.comments[j].post_id = cal.posts[i].post_id
        /\ cal.comments[j].username # cal.posts[i].author_username}

checkPairingRepetition(cal, state) ==
    LET hits == Cardinality({ij \in extractPersonaPairings(cal) :
                    pairCount(state, pairKey(cal.posts[ij[1]].author_username,
                                             cal.comments[ij[2]].username)) >= 2})
    IN  DMin(AddTimes(Zero, One, hits), Lit(2, 1))

scoreDiversity(cal, state) ==
    Clamp(FSub(FSub(FSub(Ten, checkTopicRepetition(cal, state)),
                    checkSubredditRotation(cal, state)),
               checkPairingRepetition(cal, state)))

(***************************************************************************)
(* Timing                                                                  *)
(***************************************************************************)
MinutesPerDay == 24 * 60

\* Date.getHours()
getHours(timestamp) == (timestamp % MinutesPerDay) \div 60

\* Saturday or Sunday, the week starting on a Monday
isWeekend(timestamp) == ((timestamp \div MinutesPerDay) % 7) \in {5, 6}

RECURSIVE commentGapsFrom(_, _, _)
commentGapsFrom(cal, i, penalty) ==
    IF i > Len(cal.posts) THEN penalty
    ELSE LET gaps == commentGaps(cal, cal.posts[i])
             p1 == IF Len(gaps) >= 2 /\ VarianceBelow(gaps, 4, 1)
                   THEN FAdd(penalty, Lit(15, 10)) ELSE penalty
             out == Cardinality({g \in 1..Len(gaps) : gaps[g] < 5 \/ gaps[g] > 40})
         IN  commentGapsFrom(cal, i + 1, AddTimes(p1, Lit(5, 10), out))

checkCommentGaps(cal) == DMin(commentGapsFrom(cal, 1, Zero), Lit(3, 1))

checkPostDistribution(cal) ==
    LET weekendCount == Cardinality({i \in 1..Len(cal.posts) :
                                        isWeekend(cal.posts[i].timestamp)})
        timestamps == SortNumbers([i \in 1..Len(cal.posts) |-> cal.posts[i].timestamp])
        close == Cardinality({i \in 2..Len(timestamps) :
                                 timestamps[i] - timestamps[i - 1] < 60})
        \* weekendCount > posts.length * 0.2
        p1 == IF 5 * weekendCount > Len(cal.posts) THEN FAdd(Zero, Lit(2, 1)) ELSE Zero
    IN  DMin(AddTimes(p1, Lit(15, 10), close), Lit(3, 1))

checkSuspiciousHours(cal) ==
    LET night(t) == getHours(t) >= 2 /\ getHours(t) < 6
        posts == Cardinality({i \in 1..Len(cal.posts) : night(cal.posts[i].timestamp)})
        comments == Cardinality({i \in 1..Len(cal.comments) :
                                    night(cal.comments[i].timestamp)})
    IN  DMin(AddTimes(AddTimes(Zero, Lit(15, 10), posts), Lit(5, 10), comments), Lit(2, 1))

scoreTiming(cal) ==
    Clamp(FSub(FSub(FSub(Ten, checkCommentGaps(cal)), checkPostDistribution(cal)),
               checkSuspiciousHours(cal)))

(***************************************************************************)
(* Quality scorer (lib/scoring/quality-scorer.ts).  A reported score is a  *)
(* number of tenths; a flag is its severity and category.                  *)
(***************************************************************************)
\* ALGORITHM_CONFIG.weights
WeightNaturalness == Lit(30, 100)
WeightDistribution == Lit(25, 100)
WeightConsistency == Lit(20, 100)
WeightDiversity == Lit(15, 100)
WeightTiming == Lit(10, 100)

Flag(severity, category) == [severity |-> severity, category |-> category]

hasRepeatedSubreddit(cal) ==
    Cardinality({cal.posts[i].subreddit : i \in 1..Len(cal.posts)}) < Len(cal.posts)

\* standard deviation < 2 as variance < 4
hasSuspiciousTiming(cal) ==
    \E i \in 1..Len(cal.posts) :
        LET gaps == commentGaps(cal, cal.posts[i])
        IN  Len(gaps) >= 2 /\ VarianceBelow(gaps, 4, 1)

detectQualityFlags(cal, scores) ==
    LET when(cond, flag) == IF cond THEN <<flag>> ELSE << >>
    IN  when(DLess(scores.distribution, Lit(5, 1)), Flag("critical", "distribution"))
        \o when(DLess(scores.naturalness, Lit(5, 1)), Flag("critical", "naturalness"))
        \o when(DLess(scores.naturalness, Lit(7, 1)) /\ ~DLess(scores.naturalness, Lit(5, 1)),
                Flag("warning", "naturalness"))
        \o when(DLess(scores.distribution, Lit(7, 1)) /\ ~DLess(scores.distribution, Lit(5, 1)),
                Flag("warning", "distribution"))
        \o when(DLess(scores.consistency, Lit(8, 1)), Flag("warning", "consistency"))
        \o when(hasRepeatedSubreddit(cal), Flag("warning", "distribution"))
        \o when(hasSuspiciousTiming(cal), Flag("info", "timing"))
        \o when(DLess(scores.diversity, Lit(7, 1)), Flag("info", "diversity"))

\* the weighted overall score, before it is rounded (in units of 2^-112)
weightedOverall(scores) ==
    FAdd(FAdd(FAdd(FAdd(FMul(scores.naturalness, WeightNaturalness),
                        FMul(scores.distribution, WeightDistribution)),
                   FMul(scores.consistency, WeightConsistency)),
              FMul(scores.diversity, WeightDiversity)),
         FMul(scores.timing, WeightTiming))

\* the QualityScore built from the five dimension scores
qualityScoreOf(cal, scores) ==
    [overall |-> MathRound(FMulInt(weightedOverall(scores), 10), 112),
     naturalness |-> RoundTenths(scores.naturalness),
     distribution |-> RoundTenths(scores.distribution),
     consistency |-> RoundTenths(scores.consistency),
     diversity |-> RoundTenths(scores.diversity),
     timing |-> RoundTenths(scores.timing),
     flags |-> detectQualityFlags(cal, scores)]

dimensionScores(cal, state) ==
    [naturalness |-> scoreNaturalness(cal),
     distribution |-> scoreDistribution(cal),
     consistency |-> scoreConsistency(cal),
     diversity |-> scoreDiversity(cal, state),
     timing |-> scoreTiming(cal)]

scoreWeeklyCalendar(cal, state) == qualityScoreOf(cal, dimensionScores(cal, state))

\* a threshold test that looks at the aggregate only
meetsAggregateOnly(score, threshold) == score.overall >= threshold

\* threshold in tenths
meetsQualityThreshold(score, threshold) ==
    /\ score.overall >= threshold
    /\ ~(\E i \in 1..Len(score.flags) : score.flags[i].severity = "critical")

(***************************************************************************)
(* What one attempt can build.  generatePosts, generateComments, the       *)
(* timing engine and the text synthesis draw on random numbers and on an   *)
(* external service; an attempt's outcome is one of the batches below, or  *)
(* a construction failure.  A batch is described by the features the       *)
(* scorers read off it.                                                    *)
(***************************************************************************)
MinutesPerWeek == 7 * MinutesPerDay

Txt(flags, len, words, sentenceWords) ==
    [casual |-> "casual" \in flags, lowerStart |-> "lowerStart" \in flags,
     openEnd |-> "openEnd" \in flags, informalCaps |-> "informalCaps" \in flags,
     formal |-> "formal" \in flags, professional |-> "professional" \in flags,
     student |-> "student" \in flags, forced |-> "forced" \in flags,
     len |-> len, words |-> words, sentenceWords |-> sentenceWords]

Post(id, subreddit, author, timestamp, keyword_ids, topic, title, text) ==
    [post_id |-> id, subreddit |-> subreddit, author_username |-> author,
     timestamp |-> timestamp, keyword_ids |-> keyword_ids, topic |-> topic,
     title |-> title, text |-> text]

Comment(id, post_id, parent, username, timestamp, role, text) ==
    [comment_id |-> id, post_id |-> post_id, parent_comment_id |-> parent,
     username |-> username, timestamp |-> timestamp, role |-> role, text |-> text]

\* the knobs of a draft: which of the scorers' penalties the batch runs into
Draft(sameSubreddit, keywordReuse, stiffComments, plainTitles, forcedKeywords, badTiming, terse, topics) ==
    [sameSubreddit |-> sameSubreddit, keywordReuse |-> keywordReuse,
     stiffComments |-> stiffComments, plainTitles |-> plainTitles,
     forcedKeywords |-> forcedKeywords, badTiming |-> badTiming, terse |-> terse,
     topics |-> topics]

TopicSlides == <<"best", "tools", "for", "pitch", "decks">>
TopicSlidesAgain == <<"best", "tools", "for", "pitch", "decks", "fast">>
TopicCharts == <<"how", "to", "automate", "quarterly", "charts">>
TopicFonts == <<"choosing", "fonts", "for", "conference", "talks">>

\* getNextMonday() at time now: the Monday after today, 00:00
getNextMonday(now) == (now \div MinutesPerWeek + 1) * MinutesPerWeek

\* when distributePostsTemporally schedules post i of a draft: badTiming 0 spreads
\* the posts over the week, 1 puts them half an hour apart on Monday, 2 on Saturday
DraftTime(d, now, i) ==
    LET t1 == getNextMonday(now) + (IF d.badTiming = 2 THEN 5 ELSE 0) * MinutesPerDay + 10 * 60
    IN  IF i = 1 THEN t1
        ELSE IF d.badTiming >= 1 THEN t1 + 30
        ELSE getNextMonday(now) + 2 * MinutesPerDay + 14 * 60

\* when the attempt runs (the comment engine counts from the draft posts' creation
\* time): badTiming 2 is an attempt made at 3 a.m.
DraftCreated(d, now) == now + (IF d.badTiming = 2 THEN 3 ELSE 10) * 60

\* the posts of a draft built at time now
DraftPosts(d, now) ==
    LET title(w) == Txt(IF d.plainTitles THEN {} ELSE {"lowerStart", "openEnd"}, 40, w, w)
        body(sw) == Txt(IF d.forcedKeywords THEN {"forced"} ELSE {}, 200, 30, sw)
        kw1 == IF d.keywordReuse THEN <<"K1", "K2">> ELSE <<"K1">>
        kw2 == IF d.keywordReuse THEN <<"K1", "K1">> ELSE <<"K2">>
        t1 == DraftTime(d, now, 1)
        t2 == DraftTime(d, now, 2)
    IN  <<Post("P1", "r/PowerPoint", "alice", t1, kw1, d.topics[1],
               title(5), body(IF d.terse >= 1 THEN 3 ELSE 12)),
          Post("P2", IF d.sameSubreddit THEN "r/PowerPoint" ELSE "r/consulting", "bob",
               t2, kw2, d.topics[2],
               title(IF d.plainTitles THEN 6 ELSE 9), body(IF d.terse >= 2 THEN 3 ELSE 14))>>

\* the comments of a draft: a three-comment thread on P1, two comments on P2; the
\* first d.terse personas of alice, bob, carol write in very short sentences
DraftComments(d, now) ==
    LET t == DraftCreated(d, now)
        text(len, rank) ==
            IF d.stiffComments THEN Txt({"formal"}, 60, 10, IF d.terse >= rank THEN 3 ELSE 10)
            ELSE Txt({"casual"}, len, 8, IF d.terse >= rank THEN 3 ELSE 8)
        second == IF d.badTiming = 0 THEN 22 ELSE 20
        third == IF d.badTiming = 0 THEN 40 ELSE 28
        last == 30
    IN  <<Comment("C1", "P1", NoParent, "bob", t + 10, "initial_response", text(15, 2)),
          Comment("C2", "P1", "C1", "carol", t + second, "agreement", text(45, 3)),
          Comment("C3", "P1", "C2", "alice", t + third, "op_engagement", text(30, 1)),
          Comment("C4", "P2", NoParent, "carol", t + 12, "initial_response", text(60, 3)),
          Comment("C5", "P2", "C4", "alice", t + last, "agreement", text(18, 1))>>

(***************************************************************************)
(* StateStore and its manager (StateManager, MemoryStorageAdapter).  The   *)
(* adapter hands out the one StateStore object it holds, so the persisted  *)
(* state and the manager's cached state are the same object.  Times are    *)
(* minutes.                                                                *)
(***************************************************************************)
Fold(Op(_, _), acc, s) ==
    LET RECURSIVE from(_, _, _)
        \* the fold of s[lo], ..., s[hi] onto a: the first half, then the second
        from(a, lo, hi) ==
            IF lo > hi THEN a
            ELSE IF lo = hi THEN Op(a, s[lo])
            ELSE CHOOSE folded \in {from(left, (lo + hi) \div 2 + 1, hi) :
                                      left \in {from(a, lo, (lo + hi) \div 2)}} : TRUE
    IN  from(acc, 1, Len(s))

GetOr(f, k, default) == IF k \in DOMAIN f THEN f[k] ELSE default

\* f with k mapped to v
Put(f, k, v) == (k :> v) @@ f

\* x / n for a small positive n, rounded (x zero or at least 1/8)
FDivInt(x, n) ==
    LET d == BigDivSmall(<<0, 0, 0, 0>> \o x.mag, n)
        r == RoundSticky(d.quot, d.rem # 0)
    IN  Dbl(x.neg, Norm(SubSeq(r, 5, Len(r))))

EmptyState ==
    [history |-> [weeks |-> << >>, totalPosts |-> 0, totalComments |-> 0],
     quotas |-> [personaUsage |-> << >>, subredditUsage |-> << >>, keywordUsage |-> << >>],
     patterns |-> [personaPairings |-> << >>, subredditRotation |-> << >>,
                   timingPatterns |-> << >>],
     qualityMetrics |-> [averageNaturalnessScore |-> Zero,
                         averagePersonaConsistency |-> Zero,
                         averageDistributionBalance |-> Zero,
                         weeklyScores |-> << >>]]

getOrCreatePersonaQuota(usage, username) ==
    GetOr(usage, username, [postsAsOP |-> << >>, postsAsCommenter |-> << >>,
                            lastUsed |-> 0, consecutiveWeeks |-> 0])

getOrCreateSubredditQuota(usage, subreddit) ==
    GetOr(usage, subreddit, [postCount |-> << >>, lastPosted |-> 0, topicsUsed |-> << >>])

getOrCreateKeywordQuota(usage, keywordId) ==
    GetOr(usage, keywordId, [usageCount |-> 0, lastUsed |-> 0, contexts |-> << >>])

\* quotas whose consecutive-weeks counter is left alone for a persona not used
updatePersonaQuotasWithoutReset(usage, cal) ==
    LET asOP(u, post) ==
            Put(u, post.author_username,
                [getOrCreatePersonaQuota(u, post.author_username) EXCEPT
                    !.postsAsOP = Append(@, post.timestamp),
                    !.lastUsed = Max2(@, post.timestamp)])
        asCommenter(u, comment) ==
            Put(u, comment.username,
                [getOrCreatePersonaQuota(u, comment.username) EXCEPT
                    !.postsAsCommenter = Append(@, comment.timestamp),
                    !.lastUsed = Max2(@, comment.timestamp)])
        tracked == Fold(asCommenter, Fold(asOP, usage, cal.posts), cal.comments)
        usedPersonas == {cal.posts[i].author_username : i \in 1..Len(cal.posts)}
                          \cup {cal.comments[i].username : i \in 1..Len(cal.comments)}
    IN  [username \in DOMAIN tracked |->
            [tracked[username] EXCEPT
                !.consecutiveWeeks = IF username \in usedPersonas THEN @ + 1 ELSE @]]

updatePersonaQuotas(usage, cal) ==
    LET asOP(u, post) ==
            Put(u, post.author_username,
                [getOrCreatePersonaQuota(u, post.author_username) EXCEPT
                    !.postsAsOP = Append(@, post.timestamp),
                    !.lastUsed = Max2(@, post.timestamp)])
        asCommenter(u, comment) ==
            Put(u, comment.username,
                [getOrCreatePersonaQuota(u, comment.username) EXCEPT
                    !.postsAsCommenter = Append(@, comment.timestamp),
                    !.lastUsed = Max2(@, comment.timestamp)])
        tracked == Fold(asCommenter, Fold(asOP, usage, cal.posts), cal.comments)
        usedPersonas == {cal.posts[i].author_username : i \in 1..Len(cal.posts)}
                          \cup {cal.comments[i].username : i \in 1..Len(cal.comments)}
    IN  [username \in DOMAIN tracked |->
            [tracked[username] EXCEPT
                !.consecutiveWeeks = IF username \in usedPersonas THEN @ + 1 ELSE 0]]

updateSubredditQuotas(usage, cal) ==
    LET track(u, post) ==
            Put(u, post.subreddit,
                [getOrCreateSubredditQuota(u, post.subreddit) EXCEPT
                    !.postCount = Append(@, post.timestamp),
                    !.lastPosted = Max2(@, post.timestamp),
                    !.topicsUsed = Append(@, post.topic)])
    IN  Fold(track, usage, cal.posts)

updateKeywordQuotas(usage, cal) ==
    LET trackPost(u0, post) ==
            LET track(u, keywordId) ==
                    Put(u, keywordId,
                        [getOrCreateKeywordQuota(u, keywordId) EXCEPT
                            !.usageCount = @ + 1,
                            !.lastUsed = Max2(@, post.timestamp),
                            !.contexts = Append(@, post.title)])
            IN  Fold(track, u0, post.keyword_ids)
    IN  Fold(trackPost, usage, cal.posts)

updatePatterns(patterns, cal) ==
    LET pairPost(pairings0, post) ==
            LET pair(pairings, comment) ==
                    IF comment.username # post.author_username
                    THEN Put(pairings, pairKey(post.author_username, comment.username),
                             GetOr(pairings,
                                   pairKey(post.author_username, comment.username), 0) + 1)
                    ELSE pairings
            IN  Fold(pair, pairings0, postComments(cal, post))
        gaps(timing, post) == timing \o commentGaps(cal, post)
    IN  [personaPairings |-> Fold(pairPost, patterns.personaPairings, cal.posts),
         subredditRotation |-> patterns.subredditRotation
                                 \o [i \in 1..Len(cal.posts) |-> cal.posts[i].subreddit],
         timingPatterns |-> Fold(gaps, patterns.timingPatterns, cal.posts)]

\* totalWeeks is history.weeks.length after the push
updateQualityMetrics(metrics, cal, totalWeeks) ==
    LET running(average, tenths) ==
            FDivInt(FAdd(FMulInt(average, totalWeeks - 1), Lit(tenths, 10)), totalWeeks)
    IN  [averageNaturalnessScore |->
             running(metrics.averageNaturalnessScore, cal.qualityScore.naturalness),
         averagePersonaConsistency |->
             running(metrics.averagePersonaConsistency, cal.qualityScore.consistency),
         averageDistributionBalance |->
             running(metrics.averageDistributionBalance, cal.qualityScore.distribution),
         weeklyScores |-> Append(metrics.weeklyScores, cal.qualityScore.overall)]

\* STATE_RETENTION
maxWeeksInHistory == 12
pruneThreshold == 15

SixtyDays == 60 * MinutesPerDay

\* a pruning that leaves the quota timestamps alone
pruneLogsOnly(st, now) ==
    [st EXCEPT
        !.history.weeks = IF Len(@) > pruneThreshold THEN LastN(@, maxWeeksInHistory)
                          ELSE @,
        !.patterns.subredditRotation = LastN(@, 50),
        !.patterns.timingPatterns = LastN(@, 100)]

\* a pruning that keeps the oldest weeks of the history
pruneKeepingOldest(st, now) ==
    LET recent(stamps) == SelectSeqBy(stamps, {ts \in Range(stamps) : ts > now - SixtyDays})
        persona(q) == [q EXCEPT !.postsAsOP = recent(@), !.postsAsCommenter = recent(@)]
        subreddit(q) == [q EXCEPT !.postCount = recent(@), !.topicsUsed = LastN(@, 10)]
        keyword(q) == [q EXCEPT !.contexts = LastN(@, 20)]
    IN  [st EXCEPT
            !.history.weeks = IF Len(@) > pruneThreshold
                              THEN SubSeq(@, 1, maxWeeksInHistory) ELSE @,
            !.quotas.personaUsage = [u \in DOMAIN @ |-> persona(@[u])],
            !.quotas.subredditUsage = [u \in DOMAIN @ |-> subreddit(@[u])],
            !.quotas.keywordUsage = [u \in DOMAIN @ |-> keyword(@[u])],
            !.patterns.subredditRotation = LastN(@, 50),
            !.patterns.timingPatterns = LastN(@, 100)]

\* a pruning that cuts the capped logs from the front
pruneLogsFromFront(st, now) ==
    LET recent(stamps) == SelectSeqBy(stamps, {ts \in Range(stamps) : ts > now - SixtyDays})
        FirstN(log, n) == IF Len(log) <= n THEN log ELSE SubSeq(log, 1, n)
        persona(q) == [q EXCEPT !.postsAsOP = recent(@), !.postsAsCommenter = recent(@)]
        subreddit(q) == [q EXCEPT !.postCount = recent(@), !.topicsUsed = FirstN(@, 10)]
        keyword(q) == [q EXCEPT !.contexts = FirstN(@, 20)]
    IN  [st EXCEPT
            !.history.weeks = IF Len(@) > pruneThreshold THEN LastN(@, maxWeeksInHistory)
                              ELSE @,
            !.quotas.personaUsage = [u \in DOMAIN @ |-> persona(@[u])],
            !.quotas.subredditUsage = [u \in DOMAIN @ |-> subreddit(@[u])],
            !.quotas.keywordUsage = [u \in DOMAIN @ |-> keyword(@[u])],
            !.patterns.subredditRotation = FirstN(@, 50),
            !.patterns.timingPatterns = FirstN(@, 100)]

\* pruneOldData at time now
pruneOldData(st, now) ==
    LET recent(stamps) == SelectSeqBy(stamps, {ts \in Range(stamps) : ts > now - SixtyDays})
        persona(q) == [q EXCEPT !.postsAsOP = recent(@), !.postsAsCommenter = recent(@)]
        subreddit(q) == [q EXCEPT !.postCount = recent(@), !.topicsUsed = LastN(@, 10)]
        keyword(q) == [q EXCEPT !.contexts = LastN(@, 20)]
    IN  [st EXCEPT
            !.history.weeks = IF Len(@) > pruneThreshold THEN LastN(@, maxWeeksInHistory)
                              ELSE @,
            !.quotas.personaUsage = [u \in DOMAIN @ |-> persona(@[u])],
            !.quotas.subredditUsage = [u \in DOMAIN @ |-> subreddit(@[u])],
            !.quotas.keywordUsage = [u \in DOMAIN @ |-> keyword(@[u])],
            !.patterns.subredditRotation = LastN(@, 50),
            !.patterns.timingPatterns = LastN(@, 100)]

\* the StateStore after updateStateWithCalendar(calendar) at time now
updateStateWithCalendar(st, cal, now) ==
    LET weeks == Append(st.history.weeks, cal)
    IN  pruneOldData(
            [history |-> [weeks |-> weeks,
                          totalPosts |-> st.history.totalPosts + Len(cal.posts),
                          totalComments |-> st.history.totalComments + Len(cal.comments)],
             quotas |-> [personaUsage |-> updatePersonaQuotas(st.quotas.personaUsage, cal),
                         subredditUsage |->
                             updateSubredditQuotas(st.quotas.subredditUsage, cal),
                         keywordUsage |-> updateKeywordQuotas(st.quotas.keywordUsage, cal)],
             patterns |-> updatePatterns(st.patterns, cal),
             qualityMetrics |-> updateQualityMetrics(st.qualityMetrics, cal, Len(weeks))],
            now)

(***************************************************************************)
(* The retry controller and the commit (lib/core/calendar-generator.ts).   *)
(***************************************************************************)
\* bounds of the exploration: generation runs, direct saveCalendar calls, weeks
MaxRuns == 2
MaxSaves == 1
MaxWeek == 1

\* ALGORITHM_CONFIG.thresholds
maxRetries == 5
\* the minimum a run can be asked for, in tenths: the default 7.0, and 6.9
MinQualityScores == {70, 69}

\* the drafts an attempt can come out with
Drafts ==
    LET topics == <<TopicSlides, TopicCharts>>
    IN  <<Draft(FALSE, FALSE, FALSE, FALSE, FALSE, 0, 0, topics),
          Draft(TRUE, TRUE, TRUE, TRUE, FALSE, 2, 0, topics),
          Draft(TRUE, TRUE, TRUE, TRUE, FALSE, 2, 1, topics),
          Draft(TRUE, TRUE, TRUE, TRUE, FALSE, 2, 2, topics),
          Draft(FALSE, FALSE, TRUE, TRUE, TRUE, 0, 0, topics)>>

\* Date.getFullYear and the ISO week of the clock, the clock counting from a Monday
generateWeekId(clock) == <<"week", clock \div MinutesPerWeek>>

\* generateCalendarAttempt when the engines come out with draft d; run stands for
\* the identity of the batch object (the run that built it)
generateCalendarAttempt(d, st, clock, run) ==
    LET calendar == [posts |-> DraftPosts(d, clock), comments |-> DraftComments(d, clock)]
    IN  [weekId |-> generateWeekId(clock), posts |-> calendar.posts,
         comments |-> calendar.comments, run |-> run,
         qualityScore |-> scoreWeeklyCalendar(calendar, st)]

NoCalendar == [weekId |-> "null"]
Failed == [weekId |-> "thrown"]
Completed(entry) == entry # Failed

VARIABLES
    state,            \* the StateStore object held by the storage adapter
    calendars,        \* storage.calendars: weekId -> calendar
    now,              \* the clock, minutes
    pc,               \* "idle", "attempting", "saving", "updating"
    minQualityScore,  \* the run's requested minimum, in tenths
    pool,             \* what the attempts of the run in progress can return, by draft
    attempt,          \* the loop counter of generateWeeklyCalendar
    bestCalendar,
    bestScore,
    saving,           \* the argument of the saveCalendar call in progress
    outcome,          \* how the last generateWeeklyCalendar call ended
    log,              \* history: the outcome of each attempt of the run, in order
    before,           \* history: state and calendars when the run started
    commits,          \* history: the batches appended to state.history, in order
    returned,         \* history: the batches generateWeeklyCalendar returned
    runs,
    saves,
    \* generateComments
    argPosts,         \* its arguments posts and personas
    argPersonas,
    postIndex,        \* the post its loop is at
    commentCounter,
    allComments,
    engagementLevel,  \* of the post the loop is at, once drawn
    commenters,       \* of the post the loop is at, once selected
    \* a call of scoreWeeklyCalendar(calendar, state) or of scoreDiversity
    scoreCalendar,    \* the calendar scored
    scoreState,       \* the StateStore it is scored against
    scores,           \* the five dimension scores, once computed
    quality,          \* the QualityScore returned
    variantCalendar,  \* a second calendar, scored for diversity against the same state
    diversities,      \* scoreDiversity of scoreCalendar and of variantCalendar
    \* two calls of generateAndSaveCalendar under way at once, on one server instance
    \* or on two; state is then what the storage holds (a KV or JSON store)
    managerOf,        \* call -> the StateManager (server instance) it runs on
    cache,            \* StateManager -> its field state, the object it mutates
    latest,           \* StateManager -> the call whose load filled the cache
    raceLoaded,       \* call -> the StateStore as the call loaded it
    racePc,           \* call -> "idle", "attempting", "returned", "committed"
    raceBatch,        \* call -> the batch generateWeeklyCalendar returned to it
    raceLog,          \* history: the loads and commits, in order
    \* Phase 4 of generateCalendarAttempt: generatePostTexts, then generateCommentTexts
    fillPc,           \* "idle", "posts", "comments", "scoring", "thrown"
    fillInput,        \* the posts and comments as Phases 1 to 3 left them
    fillFailing,      \* the text-synthesis calls that will fail
    fillUseAI,        \* the agreement comments for which shouldUseAI is drawn true
    postTasks,        \* per post, the call its callback awaits and the title it has
    postResults,      \* the result array of Promise.all over the posts
    commentTasks,     \* per comment, whether its callback awaits a call
    commentResults,   \* the result array of Promise.all over the comments
    overtaken,        \* history: the arrays in which a later callback resolved first
    \* Phase 3 of generateCalendarAttempt
    distributedPosts, \* the posts as distributePostsTemporally returned them
    \* a call of one of the selectors of the post engine
    selectorArgs,     \* the arguments of the call
    selectorResult    \* what the call returned

controlVars == <<state, calendars, now, pc, minQualityScore, pool, attempt, bestCalendar,
                 bestScore, saving, outcome, log, before, commits, returned, runs, saves>>

engineVars == <<argPosts, argPersonas, postIndex, commentCounter, allComments,
                engagementLevel, commenters>>

scoreVars == <<scoreCalendar, scoreState, scores, quality, variantCalendar, diversities>>

raceVars == <<managerOf, cache, latest, raceLoaded, racePc, raceBatch, raceLog>>

fillVars == <<fillPc, fillInput, fillFailing, fillUseAI, postTasks, postResults,
              commentTasks, commentResults, overtaken>>

timingVars == <<distributedPosts>>

selectorVars == <<selectorArgs, selectorResult>>

auxVars == <<raceVars, fillVars, timingVars, selectorVars>>

vars == <<controlVars, engineVars, scoreVars, auxVars>>

\* what the controller, the comment engine and the scorers leave alone
nonControlVars == <<engineVars, scoreVars, auxVars>>
nonEngineVars == <<controlVars, scoreVars, auxVars>>
nonScoreVars == <<controlVars, engineVars, auxVars>>

NoLevel == [targetComments |-> 0]

NoScores == [naturalness |-> "null"]
NoScore == [overall |-> "null"]
NoDiversities == [first |-> "null"]

\* no call of the scorers is under way
ScoreIdle ==
    /\ scoreCalendar = [weekId |-> "null"]
    /\ scoreState = [history |-> "null"]
    /\ scores = NoScores
    /\ quality = NoScore
    /\ variantCalendar = [weekId |-> "null"]
    /\ diversities = NoDiversities

\* no call of generateComments is under way
EngineIdle ==
    /\ argPosts = << >>
    /\ argPersonas = << >>
    /\ postIndex = 1
    /\ commentCounter = 1
    /\ allComments = << >>
    /\ engagementLevel = NoLevel
    /\ commenters = << >>

\* a StateManager that has not loaded the state: its field state is null
NoState == [history |-> "null"]

\* no concurrent calls are under way
RaceIdle ==
    /\ managerOf = << >>
    /\ cache = << >>
    /\ latest = << >>
    /\ raceLoaded = << >>
    /\ racePc = << >>
    /\ raceBatch = << >>
    /\ raceLog = << >>

\* no text fill is under way
FillIdle ==
    /\ fillPc = "idle"
    /\ fillInput = << >>
    /\ fillFailing = {}
    /\ fillUseAI = {}
    /\ postTasks = << >>
    /\ postResults = << >>
    /\ commentTasks = << >>
    /\ commentResults = << >>
    /\ overtaken = {}

\* distributePostsTemporally has not run
TimingIdle == distributedPosts = << >>

NoCall == [selector |-> "none"]
NoResult == [returned |-> FALSE]

\* no selector is being followed
SelectorIdle == selectorArgs = NoCall /\ selectorResult = NoResult

AuxIdle == RaceIdle /\ FillIdle /\ TimingIdle /\ SelectorIdle

\* no call of the controller is under way, the StateStore is st and the clock t
ControlIdle(st, t) ==
    /\ state = st
    /\ calendars = << >>
    /\ now = t
    /\ pc = "idle"
    /\ minQualityScore = 70
    /\ pool = << >>
    /\ attempt = 0
    /\ bestCalendar = NoCalendar
    /\ bestScore = 0
    /\ saving = NoCalendar
    /\ outcome = [kind |-> "none"]
    /\ log = << >>
    /\ before = [state |-> EmptyState, calendars |-> << >>]
    /\ commits = << >>
    /\ returned = {}
    /\ runs = 0
    /\ saves = 0

Init == ControlIdle(EmptyState, 0) /\ EngineIdle /\ ScoreIdle /\ AuxIdle

\* generateAndSaveCalendar is called: generateWeeklyCalendar loads the state and
\* enters its loop
StartRun(min) ==
    /\ pc = "idle"
    /\ runs < MaxRuns
    /\ pc' = "attempting"
    /\ runs' = runs + 1
    /\ minQualityScore' = min
    /\ pool' = [d \in 1..Len(Drafts) |->
                   generateCalendarAttempt(Drafts[d], state, now, runs + 1)]
    /\ attempt' = 1
    /\ bestCalendar' = NoCalendar
    /\ bestScore' = 0
    /\ outcome' = [kind |-> "none"]
    /\ log' = << >>
    /\ before' = [state |-> state, calendars |-> calendars]
    /\ UNCHANGED <<state, calendars, now, saving, commits, returned>>
    /\ UNCHANGED saves
    /\ UNCHANGED nonControlVars

\* generateWeeklyCalendar returns calendar; generateAndSaveCalendar goes on to save it
Return(calendar) ==
    /\ outcome' = [kind |-> "calendar", calendar |-> calendar]
    /\ returned' = returned \cup {calendar}
    /\ saving' = calendar
    /\ pc' = "saving"
    /\ attempt' = attempt

\* a loop end that returns whatever bestCalendar holds
ContinueUnchecked(best) ==
    IF attempt < maxRetries
    THEN /\ attempt' = attempt + 1
         /\ pc' = "attempting"
         /\ UNCHANGED <<outcome, returned, saving>>
    ELSE Return(best)

\* the loop goes on after an attempt that was not accepted: the next attempt, or
\* after the last one the best attempt or the error
Continue(best) ==
    IF attempt < maxRetries
    THEN /\ attempt' = attempt + 1
         /\ pc' = "attempting"
         /\ UNCHANGED <<outcome, returned, saving>>
    ELSE IF best # NoCalendar
    THEN Return(best)
    ELSE /\ outcome' = [kind |-> "error", name |-> "CalendarGenerationError",
                        code |-> "GENERATION_FAILED"]
         /\ pc' = "idle"
         /\ attempt' = attempt
         /\ UNCHANGED <<returned, saving>>

\* a best-attempt test that lets a later attempt of equal score replace the best
improvesOrEquals(calendar, best) == calendar.qualityScore.overall >= best

\* calendar.qualityScore.overall > bestScore
improves(calendar, best) == calendar.qualityScore.overall > best

\* an attempt that records the personas of its batch in the quotas as it goes
AttemptTracksQuotas(d) ==
    /\ pc = "attempting"
    /\ LET calendar == pool[d]
           better == improves(calendar, bestScore)
           best == IF better THEN calendar ELSE bestCalendar
       IN  /\ log' = Append(log, calendar)
           /\ bestCalendar' = best
           /\ bestScore' = IF better THEN calendar.qualityScore.overall ELSE bestScore
           /\ state' = [state EXCEPT
                           !.quotas.personaUsage = updatePersonaQuotas(@, calendar)]
           /\ IF meetsQualityThreshold(calendar.qualityScore, minQualityScore)
              THEN Return(calendar)
              ELSE Continue(best)
    /\ UNCHANGED <<calendars, now, minQualityScore, pool, before, commits, runs, saves>>
    /\ UNCHANGED nonControlVars

\* an attempt builds and scores the batch of draft d
AttemptCompletes(d) ==
    /\ pc = "attempting"
    /\ LET calendar == pool[d]
           better == improves(calendar, bestScore)
           best == IF better THEN calendar ELSE bestCalendar
       IN  /\ log' = Append(log, calendar)
           /\ bestCalendar' = best
           /\ bestScore' = IF better THEN calendar.qualityScore.overall ELSE bestScore
           /\ IF meetsQualityThreshold(calendar.qualityScore, minQualityScore)
              THEN Return(calendar)
              ELSE Continue(best)
    /\ UNCHANGED <<state, calendars, now, minQualityScore, pool, before, commits, runs, saves>>
    /\ UNCHANGED nonControlVars

\* a throw that the loop does not count
AttemptFailsUncounted ==
    /\ pc = "attempting"
    /\ log' = Append(log, Failed)
    /\ UNCHANGED <<pc, attempt, outcome, returned, saving, bestCalendar, bestScore>>
    /\ UNCHANGED <<state, calendars, now, minQualityScore, pool, before, commits, runs, saves>>
    /\ UNCHANGED nonControlVars

\* an attempt throws while it builds its batch
AttemptFails ==
    /\ pc = "attempting"
    /\ log' = Append(log, Failed)
    /\ Continue(bestCalendar)
    /\ UNCHANGED <<bestCalendar, bestScore>>
    /\ UNCHANGED <<state, calendars, now, minQualityScore, pool, before, commits, runs, saves>>
    /\ UNCHANGED nonControlVars

\* saveCalendar(calendar) is called on a batch that was stored before
SaveCalendarCall(weekId) ==
    /\ pc = "idle"
    /\ saves < MaxSaves
    /\ weekId \in DOMAIN calendars
    /\ saves' = saves + 1
    /\ saving' = calendars[weekId]
    /\ pc' = "saving"
    /\ outcome' = [kind |-> "none"]
    /\ log' = << >>
    /\ UNCHANGED <<state, calendars, now, minQualityScore, pool, attempt, bestCalendar,
                   bestScore, before, commits, returned, runs>>
    /\ UNCHANGED nonControlVars

\* saveCalendar: storage.saveCalendar(calendar)
StorageSaveCalendar ==
    /\ pc = "saving"
    /\ calendars' = Put(calendars, saving.weekId, saving)
    /\ pc' = "updating"
    \* the frame of generateWeeklyCalendar is gone
    /\ pool' = << >>
    /\ attempt' = 0
    /\ bestCalendar' = NoCalendar
    /\ bestScore' = 0
    /\ log' = << >>
    /\ UNCHANGED <<state, now, minQualityScore, saving, outcome, before, commits,
                   returned, runs, saves>>
    /\ UNCHANGED nonControlVars

\* saveCalendar: stateManager.updateStateWithCalendar(calendar)
UpdateStateWithCalendar ==
    /\ pc = "updating"
    /\ state' = updateStateWithCalendar(state, saving, now)
    /\ commits' = Append(commits, saving)
    /\ pc' = "idle"
    /\ saving' = NoCalendar
    /\ UNCHANGED <<calendars, now, minQualityScore, pool, attempt, bestCalendar,
                   bestScore, outcome, log, before, returned, runs, saves>>
    /\ UNCHANGED nonControlVars

\* a week passes between two calls
AdvanceClock ==
    /\ pc = "idle"
    /\ now < MaxWeek * MinutesPerWeek
    /\ now' = now + MinutesPerWeek
    /\ UNCHANGED <<state, calendars, pc, minQualityScore, pool, attempt, bestCalendar,
                   bestScore, saving, outcome, log, before, commits, returned, runs, saves>>
    /\ UNCHANGED nonControlVars

Next ==
    \/ \E min \in MinQualityScores : StartRun(min)
    \/ \E d \in 1..Len(Drafts) : AttemptCompletes(d)
    \/ AttemptFails
    \/ \E weekId \in DOMAIN calendars : SaveCalendarCall(weekId)
    \/ StorageSaveCalendar
    \/ UpdateStateWithCalendar
    \/ AdvanceClock

Spec == Init /\ [][Next]_vars

(***************************************************************************)
(* The comment engine (lib/engines/comment-engine.ts).  A persona is its   *)
(* username, its voiceProfile.authenticity (subreddit -> tenths) and the   *)
(* words of its pain points.  A ranking score is held in units of 2^-168.  *)
(***************************************************************************)
\* a double held in units of 2^-k, in units of 2^-(k+56)
Finer(x) == Dbl(x.neg, Norm(<<0, 0, 0, 0>> \o x.mag))

\* generateId(prefix, counter): the prefix followed by the decimal counter
generateId(prefix, counter) == <<prefix, counter>>

\* postText.includes(word), the text held as its words; the comment engine runs
\* before the texts are written, on posts whose title and body are empty
includes(postText, word) == word \in Range(postText)

calculateCommenterAuthenticity(persona, post) ==
    LET postText == post.title \o post.body
        hasRelevantPainPoint ==
            \E i \in 1..Len(persona.painPoints) :
                Len(persona.painPoints[i]) > 4 /\ includes(postText, persona.painPoints[i])
        subredditAuth == IF post.subreddit \in DOMAIN persona.authenticity
                            /\ persona.authenticity[post.subreddit] # 0
                         THEN Lit(persona.authenticity[post.subreddit], 10)
                         ELSE Lit(5, 10)
    IN  IF hasRelevantPainPoint THEN Finer(DMin(FAdd(subredditAuth, Lit(2, 10)), One))
        ELSE FMul(subredditAuth, Lit(8, 10))

SevenDays == 7 * MinutesPerDay

calculateCommenterRestBonus(usage, clock) ==
    LET recentComments == Cardinality({i \in 1..Len(usage.postsAsCommenter) :
                                          usage.postsAsCommenter[i] > clock - SevenDays})
    IN  IF recentComments = 0 THEN Lit(3, 10)
        ELSE IF recentComments = 1 THEN Lit(15, 100)
        ELSE Zero

calculatePairingPenalty(opUsername, commenterUsername, st) ==
    LET pairingCount == pairCount(st, pairKey(opUsername, commenterUsername))
    IN  IF pairingCount > 2 THEN Lit(3, 10)
        ELSE IF pairingCount > 1 THEN Lit(15, 100)
        ELSE Zero

\* COMMENTER_SELECTION_WEIGHTS
CommenterWeightAuthenticity == Lit(6, 10)
CommenterWeightRestBonus == Lit(25, 100)
CommenterWeightPairingPenalty == Lit(15, 100)

\* the ranking score of a persona as a commenter of post
commenterScore(persona, post, st, clock) ==
    LET usage == getOrCreatePersonaQuota(st.quotas.personaUsage, persona.username)
        authenticity == calculateCommenterAuthenticity(persona, post)
        restBonus == calculateCommenterRestBonus(usage, clock)
        pairingPenalty == calculatePairingPenalty(post.author_username, persona.username, st)
    IN  FSub(FAdd(FMul(authenticity, CommenterWeightAuthenticity),
                  Finer(FMul(restBonus, CommenterWeightRestBonus))),
             Finer(FMul(pairingPenalty, CommenterWeightPairingPenalty)))

\* scored.sort((a, b) => b.score - a.score): a stable sort, the highest score first
RECURSIVE InsertByScore(_, _)
InsertByScore(sorted, entry) ==
    IF sorted = << >> THEN <<entry>>
    ELSE IF DLess(sorted[1].score, entry.score) THEN <<entry>> \o sorted
    ELSE <<sorted[1]>> \o InsertByScore(Tail(sorted), entry)

SortByScore(scored) == Fold(InsertByScore, << >>, scored)

\* a selection that does not exclude the post's author
allPersonas(personas, post) == personas

\* personas.filter((p) => p.username !== post.author_username)
availablePersonas(personas, post) ==
    SelectSeqBy(personas, {p \in Range(personas) : p.username # post.author_username})

\* the personas that may comment on post, scored and sorted
rankCommenters(post, personas, st, clock) ==
    LET available == availablePersonas(personas, post)
    IN  SortByScore([i \in 1..Len(available) |->
                        [persona |-> available[i],
                         score |-> commenterScore(available[i], post, st, clock)]])

\* .slice(0, numCommenters).map((s) => s.persona)
topCommenters(ranked, targetComments) ==
    LET numCommenters == IF targetComments < Len(ranked) THEN targetComments
                         ELSE Len(ranked)
    IN  [i \in 1..numCommenters |-> ranked[i].persona]

selectCommenters(post, personas, targetComments, st, clock) ==
    topCommenters(rankCommenters(post, personas, st, clock), targetComments)

ThreadComment(counter, post, parent, username, timestamp, role, depth) ==
    [comment_id |-> generateId("C", counter), post_id |-> post.post_id,
     parent_comment_id |-> parent, comment_text |-> << >>, username |-> username,
     timestamp |-> timestamp, role |-> role, depth |-> depth]

\* a thread whose OP reply counts its minutes from the first comment
threadWithOPTimedFromFirst(post, chosen, level, random, startCounter) ==
    LET first == ThreadComment(startCounter, post, NoParent, chosen[1].username,
                               post.timestamp + random.initial, "initial_response", 0)
        second == ThreadComment(startCounter + 1, post, first.comment_id,
                                chosen[2].username,
                                first.timestamp + random.agreement, "agreement", 1)
        replied == IF Len(chosen) > 1 THEN second ELSE first
        op == ThreadComment(replied.comment_id[2] + 1, post, replied.comment_id,
                            post.author_username, first.timestamp + random.op,
                            "op_engagement", replied.depth + 1)
        main == <<first>> \o (IF Len(chosen) > 1 THEN <<second>> ELSE << >>)
                  \o (IF level.opShouldRespond THEN <<op>> ELSE << >>)
        extra == ThreadComment(startCounter + Len(main), post, NoParent,
                               chosen[3].username, post.timestamp + random.addition,
                               "addition", 0)
    IN  IF Len(chosen) = 0 THEN << >>
        ELSE IF Len(chosen) > 2 /\ random.additionalThread THEN Append(main, extra)
        ELSE main

\* a thread whose OP reply is recorded one level below the top whatever it replies to
threadWithOPDepthOne(post, chosen, level, random, startCounter) ==
    LET first == ThreadComment(startCounter, post, NoParent, chosen[1].username,
                               post.timestamp + random.initial, "initial_response", 0)
        second == ThreadComment(startCounter + 1, post, first.comment_id,
                                chosen[2].username,
                                first.timestamp + random.agreement, "agreement", 1)
        replied == IF Len(chosen) > 1 THEN second ELSE first
        op == ThreadComment(replied.comment_id[2] + 1, post, replied.comment_id,
                            post.author_username, replied.timestamp + random.op,
                            "op_engagement", 1)
        main == <<first>> \o (IF Len(chosen) > 1 THEN <<second>> ELSE << >>)
                  \o (IF level.opShouldRespond THEN <<op>> ELSE << >>)
        extra == ThreadComment(startCounter + Len(main), post, NoParent,
                               chosen[3].username, post.timestamp + random.addition,
                               "addition", 0)
    IN  IF Len(chosen) = 0 THEN << >>
        ELSE IF Len(chosen) > 2 /\ random.additionalThread THEN Append(main, extra)
        ELSE main

\* generateCommentThread; random holds its draws: additionalThread and the minutes of
\* the four randomMinutes calls
generateCommentThread(post, chosen, level, random, startCounter) ==
    LET first == ThreadComment(startCounter, post, NoParent, chosen[1].username,
                               post.timestamp + random.initial, "initial_response", 0)
        second == ThreadComment(startCounter + 1, post, first.comment_id,
                                chosen[2].username,
                                first.timestamp + random.agreement, "agreement", 1)
        replied == IF Len(chosen) > 1 THEN second ELSE first
        op == ThreadComment(replied.comment_id[2] + 1, post, replied.comment_id,
                            post.author_username, replied.timestamp + random.op,
                            "op_engagement", replied.depth + 1)
        main == <<first>> \o (IF Len(chosen) > 1 THEN <<second>> ELSE << >>)
                  \o (IF level.opShouldRespond THEN <<op>> ELSE << >>)
        extra == ThreadComment(startCounter + Len(main), post, NoParent,
                               chosen[3].username, post.timestamp + random.addition,
                               "addition", 0)
    IN  IF Len(chosen) = 0 THEN << >>
        ELSE IF Len(chosen) > 2 /\ random.additionalThread THEN Append(main, extra)
        ELSE main

(***************************************************************************)
(* Properties of the retry controller and of the commit.                   *)
(***************************************************************************)
Aggregate(entry) == entry.qualityScore.overall

HasCriticalFlag(entry) ==
    \E i \in 1..Len(entry.qualityScore.flags) :
        entry.qualityScore.flags[i].severity = "critical"

\* a completed attempt that meets the threshold: aggregate at least the requested
\* minimum and no flag of severity critical
Acceptable(entry) ==
    /\ Completed(entry)
    /\ Aggregate(entry) >= minQualityScore
    /\ ~HasCriticalFlag(entry)

\* generateWeeklyCalendar has just returned or raised, its attempts still on record
RunEnded == pc # "attempting" /\ log # << >>

\* C1: when all 5 attempts were made, none of the completed ones met the threshold
\* and at least one completed, generateWeeklyCalendar returns (raises no error) the
\* completed batch of maximal aggregate, the earliest of them on a tie.
C1_BestOfAttempts ==
    (/\ RunEnded
     /\ Len(log) = maxRetries
     /\ \A i \in 1..Len(log) : ~Acceptable(log[i])
     /\ \E i \in 1..Len(log) : Completed(log[i]))
    => /\ outcome.kind = "calendar"
       /\ \E i \in 1..Len(log) :
            /\ Completed(log[i])
            /\ outcome.calendar = log[i]
            /\ \A j \in 1..Len(log) : Completed(log[j]) => Aggregate(log[j]) <= Aggregate(log[i])
            /\ \A j \in 1..(i - 1) : Completed(log[j]) => Aggregate(log[j]) < Aggregate(log[i])

\* a fallback after five attempts, one of which threw, with a tie at the top between
\* two different batches: the earlier one is returned
C1_Witness ==
    /\ RunEnded
    /\ Len(log) = maxRetries
    /\ \A i \in 1..Len(log) : ~Acceptable(log[i])
    /\ \E i \in 1..Len(log) : log[i] = Failed
    /\ \E i, j \in 1..Len(log) :
        /\ i < j
        /\ Completed(log[i]) /\ Completed(log[j])
        /\ log[i] # log[j]
        /\ Aggregate(log[i]) = Aggregate(log[j])
        /\ \A m \in 1..Len(log) : Completed(log[m]) => Aggregate(log[m]) <= Aggregate(log[i])
        /\ outcome = [kind |-> "calendar", calendar |-> log[i]]

\* C2: an attempt whose batch has aggregate >= the requested minimum and no critical
\* flag is the last attempt of its run and its batch is what the run returns, whatever
\* the earlier attempts scored; an attempt whose batch has aggregate >= the minimum
\* and a critical flag does not end the run unless it is the fifth.
C2_FirstAcceptableReturned ==
    \A i \in 1..Len(log) :
        /\ Acceptable(log[i])
             => /\ i = Len(log)
                /\ pc = "saving"
                /\ outcome = [kind |-> "calendar", calendar |-> log[i]]
        /\ (/\ Completed(log[i])
            /\ Aggregate(log[i]) >= minQualityScore
            /\ HasCriticalFlag(log[i])
            /\ i < maxRetries)
             => \/ Len(log) > i
                \/ pc = "attempting" /\ attempt = i + 1

\* an accepted batch returned after a rejected attempt of higher aggregate (one with
\* a critical flag)
C2_Witness ==
    /\ pc = "saving"
    /\ Len(log) >= 2
    /\ Acceptable(log[Len(log)])
    /\ outcome = [kind |-> "calendar", calendar |-> log[Len(log)]]
    /\ \E i \in 1..(Len(log) - 1) :
        /\ Completed(log[i])
        /\ HasCriticalFlag(log[i])
        /\ Aggregate(log[i]) > Aggregate(log[Len(log)])

\* C3: when all 5 attempts of a run threw, generateWeeklyCalendar has raised
\* CalendarGenerationError with code GENERATION_FAILED, nothing is being saved, and
\* the stored batches and the StateStore are as they were when the run started.
C3_AllAttemptsFailed ==
    (/\ RunEnded
     /\ Len(log) = maxRetries
     /\ \A i \in 1..Len(log) : log[i] = Failed)
    => /\ outcome = [kind |-> "error", name |-> "CalendarGenerationError",
                     code |-> "GENERATION_FAILED"]
       /\ pc = "idle"
       /\ saving = NoCalendar
       /\ calendars = before.calendars
       /\ state = before.state

\* a run of five failures against a StateStore that already holds a committed batch
C3_Witness ==
    /\ RunEnded
    /\ Len(log) = maxRetries
    /\ \A i \in 1..Len(log) : log[i] = Failed
    /\ outcome.kind = "error"
    /\ Len(state.history.weeks) > 0

\* C4: no batch is appended to the history twice, and every batch appended was
\* returned by generateWeeklyCalendar.
C4_CommittedAtMostOnce ==
    /\ \A i, j \in 1..Len(commits) : i # j => commits[i] # commits[j]
    /\ \A i \in 1..Len(commits) : commits[i] \in returned
    /\ \A i, j \in 1..Len(state.history.weeks) :
           i # j => state.history.weeks[i] # state.history.weeks[j]

(***************************************************************************)
(* generateComments as a state machine: one step per post of its loop.     *)
(***************************************************************************)
\* the largest number of posts generateComments is given
MaxPosts == 2

Persona(username, authenticity, painPoints) ==
    [username |-> username, authenticity |-> authenticity, painPoints |-> painPoints]

Alice == Persona("alice", [s \in {"r/PowerPoint", "r/consulting"} |->
                              IF s = "r/PowerPoint" THEN 9 ELSE 6], <<"slides", "deadline">>)
Bob == Persona("bob", [s \in {"r/PowerPoint"} |-> 7], <<"charts">>)
Carol == Persona("carol", << >>, <<"fonts", "templates">>)
Dave == Persona("dave", [s \in {"r/PowerPoint", "r/consulting"} |->
                            IF s = "r/PowerPoint" THEN 9 ELSE 0], << >>)

\* the persona lists tried: four personas, fewer, the author alone, a username twice
PersonaLists ==
    {<<Alice, Bob, Carol, Dave>>, <<Alice, Bob, Carol>>, <<Alice, Bob>>, <<Alice>>,
     <<Bob, Alice, Bob>>}

\* createPostFromDraft: the i-th post of a batch, before timing and text
DraftPost(i, clock) ==
    [post_id |-> generateId("P", i),
     subreddit |-> IF i % 2 = 1 THEN "r/PowerPoint" ELSE "r/consulting",
     title |-> << >>, body |-> << >>,
     author_username |-> <<"alice", "bob", "carol", "dave">>[((i - 1) % 4) + 1],
     timestamp |-> clock,
     keyword_ids |-> <<"K1">>]

\* a StateStore with one committed batch
StateAfterCommit ==
    updateStateWithCalendar(EmptyState, generateCalendarAttempt(Drafts[1], EmptyState, 0, 1), 0)

\* ENGAGEMENT_LEVELS: minComments .. maxComments over the three levels
TargetComments == 2..6

\* the draws of generateCommentThread: randomMinutes(8, 25), (10, 20), (8, 18) and
\* (20, 40) at their ends, and the coin flip for the additional comment
Randoms ==
    [additionalThread : BOOLEAN, initial : {8, 25}, agreement : {10, 20}, op : {8, 18},
     addition : {20, 40}]

InitThread ==
    /\ \E st \in {EmptyState, StateAfterCommit} : ControlIdle(st, 0)
    /\ ScoreIdle
    /\ AuxIdle
    /\ argPersonas \in PersonaLists
    /\ \E n \in 0..MaxPosts : argPosts = [i \in 1..n |-> DraftPost(i, 0)]
    /\ postIndex = 1
    /\ commentCounter = 1
    /\ allComments = << >>
    /\ engagementLevel = NoLevel
    /\ commenters = << >>

\* a counter that counts one per thread
counterPlusOne(counter, thread) == counter + 1

\* commentCounter += thread.length
nextCounter(counter, thread) == counter + Len(thread)

\* shouldHaveEngagement(post, state) draws false: the loop goes to the next post
SkipPost ==
    /\ postIndex <= Len(argPosts)
    /\ engagementLevel = NoLevel
    /\ postIndex' = postIndex + 1
    /\ UNCHANGED <<argPosts, argPersonas, commentCounter, allComments, engagementLevel,
                   commenters>>
    /\ UNCHANGED nonEngineVars

\* shouldHaveEngagement draws true, determineEngagementLevel draws the level and
\* selectCommenters picks the commenters of the post
SelectCommenters(targetComments, opShouldRespond) ==
    /\ postIndex <= Len(argPosts)
    /\ engagementLevel = NoLevel
    /\ engagementLevel' = [targetComments |-> targetComments,
                           opShouldRespond |-> opShouldRespond]
    /\ commenters' = selectCommenters(argPosts[postIndex], argPersonas, targetComments,
                                      state, now)
    /\ UNCHANGED <<argPosts, argPersonas, postIndex, commentCounter, allComments>>
    /\ UNCHANGED nonEngineVars

\* generateCommentThread builds the thread of the post and the loop goes on
GenerateCommentThread(random) ==
    /\ engagementLevel # NoLevel
    /\ LET thread == generateCommentThread(argPosts[postIndex], commenters,
                                           engagementLevel, random, commentCounter)
       IN  /\ commentCounter' = nextCounter(commentCounter, thread)
           /\ allComments' = allComments \o thread
    /\ postIndex' = postIndex + 1
    /\ engagementLevel' = NoLevel
    /\ commenters' = << >>
    /\ UNCHANGED <<argPosts, argPersonas>>
    /\ UNCHANGED nonEngineVars

NextThread ==
    \/ SkipPost
    \/ \E targetComments \in TargetComments, opShouldRespond \in BOOLEAN :
           SelectCommenters(targetComments, opShouldRespond)
    \/ \E random \in Randoms : GenerateCommentThread(random)

SpecThread == InitThread /\ [][NextThread]_vars

\* the post a comment belongs to
PostOf(comment) == CHOOSE post \in Range(argPosts) : post.post_id = comment.post_id

\* generateComments has returned allComments
CommentsReturned == postIndex > Len(argPosts)

\* C5: a comment whose parent_comment_id is null has role initial_response or
\* addition and is not authored by the author of its post.
C5_TopLevelNotByAuthor ==
    \A i \in 1..Len(allComments) :
        allComments[i].parent_comment_id = NoParent
          => /\ allComments[i].role \in {"initial_response", "addition"}
             /\ allComments[i].username # PostOf(allComments[i]).author_username

\* a returned batch in which the author of a post is one of the personas and replies
\* in the thread of the post, which has an initial response and an addition
C5_Witness ==
    /\ CommentsReturned
    /\ \E i, j, k \in 1..Len(allComments) :
        /\ allComments[i].post_id = allComments[j].post_id
        /\ allComments[j].post_id = allComments[k].post_id
        /\ allComments[i].role = "initial_response"
        /\ allComments[j].role = "addition"
        /\ allComments[k].role = "op_engagement"
        /\ allComments[k].username = PostOf(allComments[k]).author_username
        /\ \E p \in 1..Len(argPersonas) : argPersonas[p].username = allComments[k].username

\* C6: the comment ids of the batch are pairwise different, and a parent_comment_id
\* that is not null is the id of an earlier comment of the batch on the same post.
C6_IdsUniqueParentsEarlier ==
    /\ \A i, j \in 1..Len(allComments) :
           i # j => allComments[i].comment_id # allComments[j].comment_id
    /\ \A i \in 1..Len(allComments) :
           allComments[i].parent_comment_id # NoParent
             => \E j \in 1..(i - 1) :
                    /\ allComments[j].comment_id = allComments[i].parent_comment_id
                    /\ allComments[j].post_id = allComments[i].post_id

\* a returned batch of two threads, the second of which has a reply
C6_Witness ==
    /\ CommentsReturned
    /\ Len(argPosts) = 2
    /\ \E i, j \in 1..Len(allComments) :
        /\ allComments[i].post_id = argPosts[1].post_id
        /\ allComments[i].parent_comment_id # NoParent
        /\ allComments[j].post_id = argPosts[2].post_id
        /\ allComments[j].parent_comment_id # NoParent

(***************************************************************************)
(* scoreWeeklyCalendar as a step.  The calendars scored are batches of the *)
(* shape the engines build: every post has a thread of an initial          *)
(* response, an agreement, the author's reply and an additional comment,   *)
(* written by three personas other than the author.  What varies is what   *)
(* the scorers penalise.                                                   *)
(***************************************************************************)
MaxScorePosts == 4

PersonaNames ==
    <<"erin", "frank", "grace", "heidi", "ivan", "judy", "karl", "lena", "mike", "nina",
      "omar", "pia", "quin", "rosa", "sam", "tina", "alice", "bob", "carol", "dave">>

\* keys of SUBREDDIT_CULTURE_MAP
Venues == <<"r/PowerPoint", "r/consulting", "r/marketing", "r/startups", "r/Canva">>

ScoreTopics ==
    <<TopicFonts, <<"remote", "standup", "formats", "that", "work">>,
      <<"onboarding", "checklists", "new", "hires">>,
      <<"pricing", "pages", "that", "convert">>,
      <<"weekly", "reports", "nobody", "reads">>>>

\* posts: how many; sameAuthor: one persona writes every post; sameSubreddit: the
\* second post goes to the venue of the first; personas: steady, mixed (the first
\* four personas mix professional and student vocabulary) or erratic (every persona
\* does, and writes very short sentences); voice: natural, flat (titles of one
\* length) or stiff (no imperfections, formal comments, SEO sentences); keywords:
\* spread or stuffed (the same four keywords in every post); weekend: the second
\* post falls on Saturday
ScoreKnobs ==
    [posts : 1..MaxScorePosts, sameAuthor : BOOLEAN, sameSubreddit : BOOLEAN,
     personas : {"steady", "mixed", "erratic"}, voice : {"natural", "flat", "stiff"},
     keywords : {"spread", "stuffed"}, weekend : BOOLEAN]

\* the persona with index p writing under knobs k: the flags of its texts
voiceOf(k, p) ==
    IF k.personas = "erratic" \/ (k.personas = "mixed" /\ p <= 4)
    THEN {"professional", "student"} ELSE {}

sentenceOf(k, p, words) == IF k.personas = "erratic" THEN 3 ELSE words

authorOf(k, i) == IF k.sameAuthor THEN 1 ELSE 4 * (i - 1) + 1

\* the day and the minute of the day post i is scheduled at
ScoreSlot(k, i) ==
    LET day == IF i = 2 /\ k.weekend THEN 5 ELSE <<0, 2, 1, 3, 4>>[i]
    IN  day * MinutesPerDay + <<10, 14, 9, 15, 11>>[i] * 60

ScorePosts(k, clock) ==
    [i \in 1..k.posts |->
        LET a == authorOf(k, i)
            words == IF k.voice = "natural" THEN <<5, 9, 5, 9, 5>>[i] ELSE 6
            title == Txt(IF k.voice = "stiff" THEN {} ELSE {"lowerStart", "openEnd"},
                         40, words, words)
            text == Txt(voiceOf(k, a) \cup (IF k.voice = "stiff" THEN {"forced"} ELSE {}),
                        200, 30, sentenceOf(k, a, 12))
            keyword_ids == IF k.keywords = "spread" THEN <<<<"K", i>>>>
                           ELSE <<<<"K", 1>>, <<"K", 2>>, <<"K", 3>>, <<"K", 4>>>>
        IN  Post(generateId("P", i),
                 IF i = 2 /\ k.sameSubreddit THEN Venues[1] ELSE Venues[i],
                 PersonaNames[a], getNextMonday(clock) + ScoreSlot(k, i), keyword_ids,
                 ScoreTopics[i], title, text)]

\* the thread of post i, its comments counted from the creation of the draft posts
ScoreThread(k, clock, i) ==
    LET created == clock + 10 * 60
        post == generateId("P", i)
        id(c) == generateId("C", 4 * (i - 1) + c)
        text(p, len) ==
            IF k.voice = "stiff" THEN Txt(voiceOf(k, p) \cup {"formal"}, 60, 10, sentenceOf(k, p, 10))
            ELSE Txt(voiceOf(k, p) \cup {"casual"}, len, 8, sentenceOf(k, p, 8))
        first == 4 * (i - 1) + 2
    IN  <<Comment(id(1), post, NoParent, PersonaNames[first], created + 10,
                  "initial_response", text(first, 15)),
          Comment(id(2), post, id(1), PersonaNames[first + 1], created + 22,
                  "agreement", text(first + 1, 45)),
          Comment(id(3), post, id(2), PersonaNames[authorOf(k, i)], created + 40,
                  "op_engagement", text(authorOf(k, i), 30)),
          Comment(id(4), post, NoParent, PersonaNames[first + 2], created + 35,
                  "addition", text(first + 2, 60))>>

ScoreCalendar(k, clock) ==
    [weekId |-> generateWeekId(clock), posts |-> ScorePosts(k, clock),
     comments |-> Flatten([i \in 1..k.posts |-> ScoreThread(k, clock, i)])]

\* a call scoreWeeklyCalendar(calendar, state) is made
InitScore ==
    /\ ControlIdle(EmptyState, 0)
    /\ EngineIdle
    /\ AuxIdle
    /\ \E k \in ScoreKnobs : scoreCalendar = ScoreCalendar(k, 0)
    /\ scoreState \in {EmptyState, StateAfterCommit}
    /\ scores = NoScores
    /\ quality = NoScore
    /\ variantCalendar = [weekId |-> "null"]
    /\ diversities = NoDiversities

\* scoreWeeklyCalendar computes the five dimension scores
ScoreDimensions ==
    /\ scores = NoScores
    /\ scoreCalendar.weekId # "null"
    /\ scores' = dimensionScores(scoreCalendar, scoreState)
    /\ UNCHANGED <<scoreCalendar, scoreState, quality, variantCalendar, diversities>>
    /\ UNCHANGED nonScoreVars

\* scoreWeeklyCalendar weighs them, detects the flags and returns the QualityScore
ReturnQualityScore ==
    /\ scores # NoScores
    /\ quality = NoScore
    /\ quality' = qualityScoreOf(scoreCalendar, scores)
    /\ UNCHANGED <<scoreCalendar, scoreState, scores, variantCalendar, diversities>>
    /\ UNCHANGED nonScoreVars

NextScore == ScoreDimensions \/ ReturnQualityScore

SpecScore == InitScore /\ [][NextScore]_vars

\* scoreWeeklyCalendar has returned
Scored == quality # NoScore

Dimensions == {"naturalness", "distribution", "consistency", "diversity", "timing"}

\* C7: each of the five dimension scores and the aggregate that scoreWeeklyCalendar
\* returns lies in [0, 10] (in tenths, 0..100), however many penalties apply.
C7_ScoresWithinRange ==
    Scored => \A f \in Dimensions \cup {"overall"} : quality[f] \in 0..100

\* a scored batch whose consistency penalties add up to more than 10
C7_Witness ==
    /\ Scored
    /\ quality.consistency = 0
    /\ DLess(consistencyFrom(scoreCalendar, getUniquePersonas(scoreCalendar), 1, Ten), Zero)

\* the weighted sum of the dimension scores in exact arithmetic, times 10 and
\* rounded to an integer, a half rounding up:
\* floor((30 n + 25 d + 20 c + 15 v + 10 t) / 10 + 1/2), the scores in units of 2^-56
exactAggregate(s) ==
    LET term(f, weight) == BigMul(s[f].mag, FromInt(weight))
        sum == BigAdd(BigAdd(BigAdd(BigAdd(term("naturalness", 30),
                                           term("distribution", 25)),
                                    term("consistency", 20)),
                             term("diversity", 15)),
                      term("timing", 10))
        shifted == BigDivSmall(BigAdd(sum, <<0, 0, 0, 0, 5>>), 10).quot
        whole == [i \in 1..(Len(shifted) - 4) |-> shifted[i + 4]]
    IN  ToInt(whole)

\* C8: the aggregate that scoreWeeklyCalendar reports equals naturalness * 0.30 +
\* distribution * 0.25 + consistency * 0.20 + diversity * 0.15 + timing * 0.10 rounded
\* to one decimal, a half rounding up; the scores (9.0, 8.0, 8.0, 7.0, 8.0) give 8.2.
C8_AggregateIsRoundedWeightedSum ==
    Scored => quality.overall = exactAggregate(scores)

SameVenueTwice(cal) ==
    \E i, j \in 1..Len(cal.posts) :
        i # j /\ cal.posts[i].subreddit = cal.posts[j].subreddit

\* C9: a batch with two or more posts in one venue gets a distribution score of at
\* most 7.0 and a flag of category distribution, whatever its persona and keyword
\* usage.
C9_SameVenueLowersDistribution ==
    (Scored /\ SameVenueTwice(scoreCalendar))
        => /\ quality.distribution <= 70
           /\ \E f \in 1..Len(quality.flags) : quality.flags[f].category = "distribution"

\* a scored batch with a repeated venue and no other distribution penalty: the score
\* is 7.0 and the flag is the one of the repeated venue
C9_Witness ==
    /\ Scored
    /\ SameVenueTwice(scoreCalendar)
    /\ quality.distribution = 70
    /\ Flag("warning", "distribution") \in Range(quality.flags)

(***************************************************************************)
(* scoreDiversity on two batches that differ in one topic, against one     *)
(* StateStore.                                                             *)
(***************************************************************************)
TopicDeckTools ==
    <<"pitch", "deck", "design", "pitch", "deck", "templates", "pitch", "deck", "tools">>
TopicDesignTools ==
    <<"design", "tools", "design", "templates", "design", "deck", "pitch">>

\* the batch of a week whose posts have the given topics
TopicDraft(topics) == Draft(FALSE, FALSE, FALSE, FALSE, FALSE, 0, 0, topics)

TopicBatch(topics, st, week) ==
    generateCalendarAttempt(TopicDraft(topics), st, week * MinutesPerWeek, week)

MaxHistoryWeeks == 5

\* the topics of a week of the history: a week with the two topics that the variants
\* come close to, or a week with unrelated topics
HistoryTopics == {<<TopicSlides, TopicDeckTools>>, <<ScoreTopics[3], ScoreTopics[4]>>}

VariantTopics == {TopicSlides, TopicSlidesAgain, TopicDesignTools, TopicFonts, TopicCharts}

\* the batch, built after the weeks of the history, whose post p has the given topic
VariantBatch(p, topic) ==
    LET d == TopicDraft([i \in 1..2 |-> IF i = p THEN topic ELSE ScoreTopics[2]])
        clock == MaxHistoryWeeks * MinutesPerWeek
    IN  [weekId |-> generateWeekId(clock), posts |-> DraftPosts(d, clock),
         comments |-> DraftComments(d, clock)]

InitDiversity ==
    /\ ControlIdle(EmptyState, 0)
    /\ EngineIdle
    /\ AuxIdle
    /\ scoreState = EmptyState
    /\ \E p \in 1..2, first \in VariantTopics, second \in VariantTopics :
           /\ scoreCalendar = VariantBatch(p, first)
           /\ variantCalendar = VariantBatch(p, second)
    /\ scores = NoScores
    /\ quality = NoScore
    /\ diversities = NoDiversities

\* a week of history: generateAndSaveCalendar builds a batch with the given topics
\* and commits it to the StateStore
CommitHistoryWeek(topics) ==
    /\ diversities = NoDiversities
    /\ Len(scoreState.history.weeks) < MaxHistoryWeeks
    /\ LET week == Len(scoreState.history.weeks)
       IN  \E batch \in {TopicBatch(topics, scoreState, week)} :
               scoreState' = updateStateWithCalendar(scoreState, batch,
                                                     week * MinutesPerWeek)
    /\ UNCHANGED <<scoreCalendar, scores, quality, variantCalendar, diversities>>
    /\ UNCHANGED nonScoreVars

\* scoreDiversity returns for both batches
ScoreDiversityOfBoth ==
    /\ diversities = NoDiversities
    /\ diversities' = [first |-> scoreDiversity(scoreCalendar, scoreState),
                       second |-> scoreDiversity(variantCalendar, scoreState)]
    /\ UNCHANGED <<scoreCalendar, scoreState, scores, quality, variantCalendar>>
    /\ UNCHANGED nonScoreVars

NextDiversity ==
    \/ \E topics \in HistoryTopics : CommitHistoryWeek(topics)
    \/ ScoreDiversityOfBoth

SpecDiversity == InitDiversity /\ [][NextDiversity]_vars

\* the topics of the last four weeks of the history
RecentTopics(st) ==
    LET recentWeeks == LastN(st.history.weeks, 4)
    IN  Flatten([w \in 1..Len(recentWeeks) |->
                    [i \in 1..Len(recentWeeks[w].posts) |-> recentWeeks[w].posts[i].topic]])

\* some topic of the batch has (cosine + Jaccard) / 2 >= 0.75 with a topic of the
\* last four weeks
OverlapsHistory(cal, st) ==
    \E i \in 1..Len(cal.posts), j \in 1..Len(RecentTopics(st)) :
        areTopicsSimilar(cal.posts[i].topic, RecentTopics(st)[j], 3, 4)

\* C10: of two batches that differ in one topic, the first with a topic whose
\* (cosine + Jaccard) / 2 similarity to a topic of the last four history weeks is
\* at least 0.75 and the second without any, the first scores at least 1.5 lower in
\* scoreDiversity than the second.
C10_SimilarTopicLowersDiversity ==
    (/\ diversities # NoDiversities
     /\ OverlapsHistory(scoreCalendar, scoreState)
     /\ ~OverlapsHistory(variantCalendar, scoreState))
        => ~DLess(diversities.second, FAdd(diversities.first, Lit(15, 10)))
(***************************************************************************)
(* The StateStore over many weeks: saveCalendar commits a batch built at   *)
(* the time of the clock, and weeks pass between commits.                  *)
(***************************************************************************)
\* bounds: the commits made and the weeks that pass while quota timestamps age
MaxAgedCommits == 3
MaxAgedWeeks == 10

\* generateAndSaveCalendar returns the batch of draft d, built at the time of the
\* clock, and saveCalendar stores it and commits it to the StateStore
SaveCalendar(d, limit) ==
    /\ pc = "idle"
    /\ Len(commits) < limit
    /\ \E batch \in {generateCalendarAttempt(Drafts[d], state, now, Len(commits) + 1)} :
           /\ calendars' = Put(calendars, batch.weekId, batch)
           /\ state' = updateStateWithCalendar(state, batch, now)
           /\ commits' = Append(commits, batch)
           /\ returned' = returned \cup {batch}
    /\ UNCHANGED <<now, pc, minQualityScore, pool, attempt, bestCalendar, bestScore,
                   saving, outcome, log, before, runs, saves>>
    /\ UNCHANGED nonControlVars

\* n weeks pass
PassWeeks(n, limit) ==
    /\ pc = "idle"
    /\ now + n * MinutesPerWeek <= limit * MinutesPerWeek
    /\ now' = now + n * MinutesPerWeek
    /\ UNCHANGED <<state, calendars, pc, minQualityScore, pool, attempt, bestCalendar,
                   bestScore, saving, outcome, log, before, commits, returned, runs, saves>>
    /\ UNCHANGED nonControlVars

NextRetention ==
    \/ \E d \in 1..2 : SaveCalendar(d, MaxAgedCommits)
    \/ \E n \in {1, 9} : PassWeeks(n, MaxAgedWeeks)

SpecRetention == Init /\ [][NextRetention]_vars

\* every timestamp of the persona quota lists and of the venue post lists of st
QuotaStamps(st) ==
    UNION {Range(st.quotas.personaUsage[u].postsAsOP)
             \cup Range(st.quotas.personaUsage[u].postsAsCommenter) :
           u \in DOMAIN st.quotas.personaUsage}
      \cup UNION {Range(st.quotas.subredditUsage[v].postCount) :
                  v \in DOMAIN st.quotas.subredditUsage}

\* C11: a commit (updateStateWithCalendar) leaves no timestamp older than 60 days
\* before the time of the commit in the postsAsOP and postsAsCommenter lists of any
\* persona quota, nor in the post-timestamp list of any venue.
C11_QuotaStampsWithinSixtyDays ==
    [][state' # state => \A ts \in QuotaStamps(state') : ts >= now - SixtyDays]_vars

\* the posts recorded for the personas are fewer than the posts committed: a commit
\* has dropped timestamps, and what is left is within 60 days of the clock
C11_Witness ==
    /\ Len(commits) >= 2
    /\ \E u \in DOMAIN state.quotas.personaUsage :
           /\ state.quotas.personaUsage[u].postsAsOP # << >>
           /\ state.quotas.personaUsage[u].postsAsCommenter # << >>
    /\ SumSeq([i \in 1..Len(PersonaNames) |->
                  IF PersonaNames[i] \in DOMAIN state.quotas.personaUsage
                  THEN Len(state.quotas.personaUsage[PersonaNames[i]].postsAsOP) ELSE 0])
         < state.history.totalPosts
    /\ \A ts \in QuotaStamps(state) : ts >= now - SixtyDays
    /\ now >= 9 * MinutesPerWeek

(***************************************************************************)
(* Two calls of generateAndSaveCalendar at once, against a storage that    *)
(* holds the StateStore in serialised form (KVStorageAdapter,              *)
(* JSONStorageAdapter): a load hands out a fresh copy.  The calls run on   *)
(* one server instance, sharing the StateManager singleton, or on two.     *)
(***************************************************************************)
Calls == {1, 2}

\* a commit that reads the stored state again
reloadState(cached, persisted) == persisted

\* StateManager.getState: the cached state, loaded only when there is none
getState(cached, persisted) == IF cached # NoState THEN cached ELSE persisted

InitRace ==
    /\ state = EmptyState
    /\ calendars = << >>
    /\ now = 0
    /\ pc = "idle"
    /\ minQualityScore = 70
    \* what an attempt against the stored state comes out with, by draft
    /\ pool = [d \in 1..2 |-> generateCalendarAttempt(Drafts[d], state, now, 0)]
    /\ attempt = 0
    /\ bestCalendar = NoCalendar
    /\ bestScore = 0
    /\ saving = NoCalendar
    /\ outcome = [kind |-> "none"]
    /\ log = << >>
    /\ before = [state |-> EmptyState, calendars |-> << >>]
    /\ commits = << >>
    /\ returned = {}
    /\ runs = 0
    /\ saves = 0
    /\ EngineIdle
    /\ ScoreIdle
    /\ managerOf \in {<<1, 1>>, <<1, 2>>}
    /\ cache = <<NoState, NoState>>
    /\ latest = <<0, 0>>
    /\ raceLoaded = <<NoState, NoState>>
    /\ racePc = <<"idle", "idle">>
    /\ raceBatch = <<NoCalendar, NoCalendar>>
    /\ raceLog = << >>
    /\ FillIdle
    /\ TimingIdle
    /\ SelectorIdle

\* the currentState of call c: the object its load returned, which the StateManager
\* mutates for as long as it is the one cached
currentState(c) ==
    IF latest[managerOf[c]] = c THEN cache[managerOf[c]] ELSE raceLoaded[c]

\* generateWeeklyCalendar of call c loads the state: stateManager.loadState(); the
\* calls followed are those that load before either of them commits
LoadState(c) ==
    /\ racePc[c] = "idle"
    /\ commits = << >>
    /\ racePc' = [racePc EXCEPT ![c] = "attempting"]
    /\ cache' = [cache EXCEPT ![managerOf[c]] = state]
    /\ latest' = [latest EXCEPT ![managerOf[c]] = c]
    \* the call that loaded before on this StateManager keeps the object it was given
    /\ raceLoaded' = [k \in Calls |-> IF k = c THEN state ELSE currentState(k)]
    /\ raceLog' = Append(raceLog, <<"load", c>>)
    /\ UNCHANGED <<managerOf, raceBatch>>
    /\ UNCHANGED <<controlVars, engineVars, scoreVars, fillVars, timingVars, selectorVars>>

\* generateWeeklyCalendar of call c returns the batch of draft d, built and scored
\* against the state the call loaded, which is the state stored at the start
ReturnCalendar(c, d) ==
    /\ racePc[c] = "attempting"
    /\ racePc' = [racePc EXCEPT ![c] = "returned"]
    /\ raceBatch' = [raceBatch EXCEPT ![c] = [pool[d] EXCEPT !.run = c]]
    /\ UNCHANGED <<managerOf, cache, latest, raceLoaded, raceLog>>
    /\ UNCHANGED <<controlVars, engineVars, scoreVars, fillVars, timingVars, selectorVars>>

\* saveCalendar of call c: storage.saveCalendar, then updateStateWithCalendar on the
\* state of the StateManager, which it saves
CommitCalendar(c) ==
    /\ racePc[c] = "returned"
    /\ racePc' = [racePc EXCEPT ![c] = "committed"]
    /\ calendars' = Put(calendars, raceBatch[c].weekId, raceBatch[c])
    /\ \E updated \in {updateStateWithCalendar(getState(cache[managerOf[c]], state),
                                                raceBatch[c], now)} :
           /\ state' = updated
           /\ cache' = [cache EXCEPT ![managerOf[c]] = updated]
    /\ commits' = Append(commits, raceBatch[c])
    /\ raceLog' = Append(raceLog, <<"commit", c>>)
    /\ UNCHANGED <<managerOf, latest, raceLoaded, raceBatch>>
    /\ UNCHANGED <<now, pc, minQualityScore, pool, attempt, bestCalendar, bestScore,
                   saving, outcome, log, before, returned, runs, saves>>
    /\ UNCHANGED <<engineVars, scoreVars, fillVars, timingVars, selectorVars>>

NextRace ==
    \/ \E c \in Calls : LoadState(c)
    \/ \E c \in Calls, d \in 1..2 : ReturnCalendar(c, d)
    \/ \E c \in Calls : CommitCalendar(c)

SpecRace == InitRace /\ [][NextRace]_vars

\* both calls have committed, and both had loaded the state before either did
BothLoadedThenCommitted ==
    /\ Len(raceLog) = 4
    /\ raceLog[1][1] = "load" /\ raceLog[2][1] = "load"
    /\ raceLog[3][1] = "commit" /\ raceLog[4][1] = "commit"

\* what a StateStore records of a batch committed on top of base
OnlyUpdateOf(st, base, batch) ==
    /\ st.history.weeks = Append(base.history.weeks, batch)
    /\ st.history.totalPosts = base.history.totalPosts + Len(batch.posts)
    /\ st.history.totalComments = base.history.totalComments + Len(batch.comments)
    /\ st.quotas = updateStateWithCalendar(base, batch, now).quotas
    /\ Len(st.qualityMetrics.weeklyScores) = Len(base.qualityMetrics.weeklyScores) + 1

\* C12: when two calls have loaded the same StateStore before either of them commits
\* and they run on two server instances, then after both commits the stored
\* StateStore holds the history entry and the quota updates of the batch committed
\* last alone: the update of the call that committed first is overwritten.
C12_LostUpdate ==
    (BothLoadedThenCommitted /\ managerOf[1] # managerOf[2])
      => LET first == raceLog[3][2]
             last == raceLog[4][2]
         IN  /\ OnlyUpdateOf(state, raceLoaded[last], raceBatch[last])
             /\ raceLoaded[last] = raceLoaded[first]
             /\ \A i \in 1..Len(state.history.weeks) :
                    state.history.weeks[i] # raceBatch[first]

\* two calls on two instances have both committed different batches after loading
\* the same state, and what is stored has one history entry, not two
C12_Witness ==
    /\ BothLoadedThenCommitted
    /\ managerOf[1] # managerOf[2]
    /\ raceBatch[1].posts # raceBatch[2].posts
    /\ raceLoaded[1] = raceLoaded[2]
    /\ Len(state.history.weeks) = Len(raceLoaded[1].history.weeks) + 1
    /\ Len(commits) = 2
    /\ state.history.totalPosts < raceLoaded[1].history.totalPosts
                                    + Len(raceBatch[1].posts) + Len(raceBatch[2].posts)

(***************************************************************************)
(* Termination of generateWeeklyCalendar.  An attempt that has started     *)
(* comes to an end, with a batch or with a throw: the engines loop over    *)
(* finite lists and the text synthesis calls are awaited.                  *)
(***************************************************************************)
Attempt == (\E d \in 1..Len(Drafts) : AttemptCompletes(d)) \/ AttemptFails

\* one call of generateAndSaveCalendar, on a fresh StateStore
InitLive ==
    /\ ControlIdle(EmptyState, 0)
    /\ EngineIdle
    /\ ScoreIdle
    /\ AuxIdle

StartOnlyRun(min) == runs = 0 /\ StartRun(min)

NextLive ==
    \/ \E min \in MinQualityScores : StartOnlyRun(min)
    \/ \E d \in 1..Len(Drafts) : AttemptCompletes(d)
    \/ AttemptFails
    \/ StorageSaveCalendar
    \/ UpdateStateWithCalendar

SpecLive == InitLive /\ [][NextLive]_vars /\ WF_vars(Attempt)

\* generateWeeklyCalendar has ended: with a batch of one of its attempts, built and
\* scored, or with the error CalendarGenerationError
EndedWithOneOutcome ==
    \/ /\ outcome.kind = "calendar"
       /\ pc = "saving"
       /\ \E i \in 1..Len(log) : Completed(log[i]) /\ outcome.calendar = log[i]
       /\ \E d \in 1..Len(Drafts) : outcome.calendar = pool[d]
    \/ /\ outcome = [kind |-> "error", name |-> "CalendarGenerationError",
                      code |-> "GENERATION_FAILED"]
       /\ pc = "idle"
       /\ \A i \in 1..Len(log) : log[i] = Failed

\* C13: a run of generateWeeklyCalendar makes at most 5 attempts; when every attempt
\* terminates the run ends, and it ends in one outcome, a batch that one of its
\* attempts built and scored or the terminal error; what an attempt that threw was
\* building is never returned.
C13_RunTerminatesInOneOutcome ==
    /\ [](Len(log) <= maxRetries /\ attempt <= maxRetries)
    /\ [](RunEnded => EndedWithOneOutcome)
    /\ [](\A calendar \in returned : calendar # Failed /\ calendar # NoCalendar)
    /\ (pc = "attempting") ~> RunEnded

\* a run that made all five attempts, the first four of which threw, and returned
\* the batch of the fifth, which is below the minimum
C13_Witness ==
    /\ RunEnded
    /\ Len(log) = maxRetries
    /\ \A i \in 1..(maxRetries - 1) : log[i] = Failed
    /\ Completed(log[maxRetries])
    /\ ~Acceptable(log[maxRetries])
    /\ outcome = [kind |-> "calendar", calendar |-> log[maxRetries]]

(***************************************************************************)
(* The StateStore during a run.                                            *)
(***************************************************************************)
\* C14: a step of a run that is attempting (an attempt that is accepted, one that is
\* rejected for its score, one that throws) leaves the StateStore, its history,
\* quotas, patterns and qualityMetrics, as the run loaded it; the state changes at
\* the commit only.
C14_StateReadOnlyUntilCommit ==
    [][/\ pc = "attempting" => state' = state /\ state = before.state
       /\ state' # state => pc = "updating"]_vars

\* a run on a StateStore that holds a committed batch, after an attempt that threw
\* and one that was rejected
C14_Witness ==
    /\ state = before.state
    /\ Len(state.history.weeks) > 0
    /\ pc = "attempting"
    /\ \E i, j \in 1..Len(log) : log[i] = Failed /\ Completed(log[j])

(***************************************************************************)
(* The pattern logs over many commits.                                     *)
(***************************************************************************)
\* bound: the commits made
MaxCommits == 26

\* the entries pruneOldData keeps of the venue-rotation log
rotationLimit == 50

NextPairing ==
    \/ SaveCalendar(1, MaxCommits)
    \/ PassWeeks(1, MaxWeek)

SpecPairing == Init /\ [][NextPairing]_vars

\* C15: the persona-pairing log stays bounded as batches with the same pair of author
\* and commenter are committed, as the venue-rotation log does: no recorded count
\* exceeds the 50 entries the rotation log is cut to.
C15_PairingLogBounded ==
    /\ Len(state.patterns.subredditRotation) <= rotationLimit
    /\ \A pair \in DOMAIN state.patterns.personaPairings :
           state.patterns.personaPairings[pair] <= rotationLimit


(***************************************************************************)
(* The severity of the flag for a repeated venue.                          *)
(***************************************************************************)

\* the threshold of generateWeeklyCalendar's default, in tenths
defaultMinQualityScore == 70

\* C16: whenever a scored batch has two or more posts in one subreddit, its flag
\* list contains a flag of severity critical, so that the batch cannot meet the
\* quality threshold.
C16_RepeatedVenueIsCritical ==
    (Scored /\ SameVenueTwice(scoreCalendar))
        => /\ \E f \in 1..Len(quality.flags) : quality.flags[f].severity = "critical"
           /\ ~meetsQualityThreshold(quality, defaultMinQualityScore)

(***************************************************************************)
(* Phase 4 of generateCalendarAttempt: the text fill.  generatePostTexts   *)
(* starts one callback per post and awaits them all; generateCommentTexts  *)
(* then does the same per comment.  A text is described by where it came   *)
(* from and by the item and part it was requested for.  The posts and      *)
(* comments are those generatePosts and generateComments built from the    *)
(* run's personas and keywords, so the callbacks find their persona,       *)
(* keyword and post.                                                       *)
(***************************************************************************)

MaxFillPosts == 2

NoItem == <<"none", 0>>
EmptyText == [origin |-> "empty", for |-> NoItem, part |-> "none"]
Thrown == [origin |-> "thrown", for |-> NoItem, part |-> "none"]
Unresolved == [pending |-> TRUE]

\* what the collaborator returned for the item, after applyNaturalness
Generated(id, part) == [origin |-> "generated", for |-> id, part |-> part]

\* one of the three titles built from the post's keyword
generateTemplateTitleFallback(post) ==
    [origin |-> "template", for |-> post.post_id, part |-> "title"]

\* one of the three fixed comments
generateTemplateCommentFallback(comment) ==
    [origin |-> "template", for |-> comment.comment_id, part |-> "comment"]

\* one of AGREEMENT_PATTERNS or OP_RESPONSE_PATTERNS
Pattern(comment) == [origin |-> "pattern", for |-> comment.comment_id, part |-> "comment"]

\* a title call whose failure is not caught
generatePostTitleUncaught(ok, post) ==
    IF ok THEN Generated(post.post_id, "title") ELSE Thrown

generatePostTitle(ok, post) ==
    IF ok THEN Generated(post.post_id, "title") ELSE generateTemplateTitleFallback(post)

generatePostBody(ok, post) ==
    IF ok THEN Generated(post.post_id, "body") ELSE EmptyText

generateInitialComment(ok, comment) ==
    IF ok THEN Generated(comment.comment_id, "comment")
    ELSE generateTemplateCommentFallback(comment)

\* without shouldUseAI no call is made; a failed call falls through to the pattern
generateAgreementComment(useAI, ok, comment) ==
    IF useAI /\ ok THEN Generated(comment.comment_id, "comment") ELSE Pattern(comment)

generateOPEngagementComment(comment) == Pattern(comment)

generateAdditionalComment(ok, comment) ==
    IF ok THEN Generated(comment.comment_id, "comment")
    ELSE generateTemplateCommentFallback(comment)

needsBody(post) == post.intent = "context_question"

\* the agreement's parent, looked up in the comments as they were passed in
hasParent(comments, comment) ==
    \E k \in 1..Len(comments) : comments[k].comment_id = comment.parent_comment_id

\* whether the callback of a comment awaits a text-synthesis call
awaitsCall(comments, useAI, comment) ==
    CASE comment.role = "initial_response" -> TRUE
      [] comment.role = "agreement" ->
             hasParent(comments, comment) /\ comment.comment_id \in useAI
      [] comment.role = "op_engagement" -> FALSE
      [] comment.role = "addition" -> TRUE

\* the switch of generateCommentTexts
commentText(comments, useAI, ok, comment) ==
    CASE comment.role = "initial_response" -> generateInitialComment(ok, comment)
      [] comment.role = "agreement" ->
             IF hasParent(comments, comment)
             THEN generateAgreementComment(comment.comment_id \in useAI, ok, comment)
             ELSE EmptyText
      [] comment.role = "op_engagement" -> generateOPEngagementComment(comment)
      [] comment.role = "addition" -> generateAdditionalComment(ok, comment)

\* comment_text: text || comment.comment_text
withText(comment, text) ==
    [comment EXCEPT !.comment_text = IF text = EmptyText THEN @ ELSE text]

\* a result array that takes the values in the order they arrive
resolveInArrival(results, i, value) ==
    LET first == CHOOSE k \in 1..Len(results) :
                     /\ results[k] = Unresolved
                     /\ \A l \in 1..(k - 1) : results[l] # Unresolved
    IN  [results EXCEPT ![first] = value]

\* Promise.all: the value a callback resolves with goes to the callback's index
resolve(results, i, value) ==
    [results EXCEPT ![i] = value]

\* the array, if the callback at index i resolves before one at a lower index
Overtaking(results, i, array) ==
    IF \E k \in 1..(i - 1) : results[k] = Unresolved THEN {array} ELSE {}

AllResolved(results) == \A i \in 1..Len(results) : results[i] # Unresolved

FillPost(i, intent) ==
    [post_id |-> <<"P", i>>, author_username |-> IF i = 1 THEN "alice" ELSE "bob",
     intent |-> intent, title |-> EmptyText, body |-> EmptyText]

FillComment(j, post, parent, role, username) ==
    [comment_id |-> <<"C", j>>, post_id |-> <<"P", post>>,
     parent_comment_id |-> <<"C", parent>>, role |-> role, username |-> username,
     comment_text |-> EmptyText]

\* the thread generateCommentThread builds on the first post (initial response,
\* agreement, OP engagement, addition), and an initial response on each later post
FillComments(posts) ==
    <<FillComment(1, 1, 0, "initial_response", "bob"),
      FillComment(2, 1, 1, "agreement", "carol"),
      FillComment(3, 1, 2, "op_engagement", "alice"),
      FillComment(4, 1, 0, "addition", "dave")>>
    \o [k \in 1..(posts - 1) |-> FillComment(4 + k, k + 1, 0, "initial_response", "carol")]

\* the calls an attempt on these posts and comments issues
CallsOf(posts, comments, useAI) ==
    {<<"title", i>> : i \in 1..Len(posts)}
    \cup {<<"body", i>> : i \in {k \in 1..Len(posts) : needsBody(posts[k])}}
    \cup {<<"comment", j>> : j \in {k \in 1..Len(comments) :
                                       awaitsCall(comments, useAI, comments[k])}}

\* generatePostTexts has started: every callback has issued its title call
InitFill ==
    /\ ControlIdle(EmptyState, 0)
    /\ EngineIdle
    /\ ScoreIdle
    /\ RaceIdle
    /\ TimingIdle
    /\ SelectorIdle
    /\ fillPc = "posts"
    /\ \E n \in 1..MaxFillPosts :
           \E intents \in [1..n -> {"context_question", "direct_question"}] :
               fillInput = [posts |-> [i \in 1..n |-> FillPost(i, intents[i])],
                            comments |-> FillComments(n)]
    /\ fillUseAI \in SUBSET {<<"C", 2>>}
    /\ fillFailing \in SUBSET CallsOf(fillInput.posts, fillInput.comments, fillUseAI)
    /\ postTasks = [i \in 1..Len(fillInput.posts) |->
                        [awaiting |-> "title", title |-> EmptyText]]
    /\ postResults = [i \in 1..Len(fillInput.posts) |-> Unresolved]
    /\ commentTasks = << >>
    /\ commentResults = << >>
    /\ overtaken = {}

\* the title call of post i returns or fails: generatePostText goes on to the body
\* call or returns, and the callback resolves with {...post, title, body}
TitleReturns(i) ==
    /\ fillPc = "posts"
    /\ postTasks[i].awaiting = "title"
    /\ LET post == fillInput.posts[i]
           title == generatePostTitle(<<"title", i>> \notin fillFailing, post)
       IN  IF title = Thrown
           THEN /\ fillPc' = "thrown"
                /\ UNCHANGED <<postTasks, postResults, overtaken>>
           ELSE IF needsBody(post)
           THEN /\ postTasks' = [postTasks EXCEPT ![i] = [awaiting |-> "body", title |-> title]]
                /\ UNCHANGED <<fillPc, postResults, overtaken>>
           ELSE /\ postTasks' = [postTasks EXCEPT ![i] = [awaiting |-> "none", title |-> title]]
                /\ postResults' = resolve(postResults, i,
                                          [post EXCEPT !.title = title, !.body = EmptyText])
                /\ overtaken' = overtaken \cup Overtaking(postResults, i, "posts")
                /\ UNCHANGED fillPc
    /\ UNCHANGED <<fillInput, fillFailing, fillUseAI, commentTasks, commentResults>>
    /\ UNCHANGED <<controlVars, engineVars, scoreVars, raceVars, timingVars, selectorVars>>

\* the body call of post i returns or fails
BodyReturns(i) ==
    /\ fillPc = "posts"
    /\ postTasks[i].awaiting = "body"
    /\ LET post == fillInput.posts[i]
           body == generatePostBody(<<"body", i>> \notin fillFailing, post)
       IN  /\ postTasks' = [postTasks EXCEPT ![i].awaiting = "none"]
           /\ postResults' = resolve(postResults, i,
                                     [post EXCEPT !.title = postTasks[i].title, !.body = body])
           /\ overtaken' = overtaken \cup Overtaking(postResults, i, "posts")
    /\ UNCHANGED <<fillPc, fillInput, fillFailing, fillUseAI, commentTasks, commentResults>>
    /\ UNCHANGED <<controlVars, engineVars, scoreVars, raceVars, timingVars, selectorVars>>

\* Promise.all over the posts has resolved: generateCommentTexts starts a callback
\* per comment
StartCommentTexts ==
    /\ fillPc = "posts"
    /\ AllResolved(postResults)
    /\ fillPc' = "comments"
    /\ commentTasks' = [j \in 1..Len(fillInput.comments) |->
                            IF awaitsCall(fillInput.comments, fillUseAI, fillInput.comments[j])
                            THEN "call" ELSE "turn"]
    /\ commentResults' = [j \in 1..Len(fillInput.comments) |-> Unresolved]
    /\ UNCHANGED <<fillInput, fillFailing, fillUseAI, postTasks, postResults, overtaken>>
    /\ UNCHANGED <<controlVars, engineVars, scoreVars, raceVars, timingVars, selectorVars>>

\* the callback of comment j resolves: its call has returned or failed, or it made
\* none and its turn has come
CommentResolves(j) ==
    /\ fillPc = "comments"
    /\ commentTasks[j] # "none"
    /\ LET comment == fillInput.comments[j]
           text == commentText(fillInput.comments, fillUseAI,
                               <<"comment", j>> \notin fillFailing, comment)
       IN  /\ commentTasks' = [commentTasks EXCEPT ![j] = "none"]
           /\ commentResults' = resolve(commentResults, j, withText(comment, text))
           /\ overtaken' = overtaken \cup Overtaking(commentResults, j, "comments")
    /\ UNCHANGED <<fillPc, fillInput, fillFailing, fillUseAI, postTasks, postResults>>
    /\ UNCHANGED <<controlVars, engineVars, scoreVars, raceVars, timingVars, selectorVars>>

\* Promise.all over the comments has resolved: the calendar object is built from
\* posts and updatedComments and scoreWeeklyCalendar is called
ScoreFilled ==
    /\ fillPc = "comments"
    /\ AllResolved(commentResults)
    /\ fillPc' = "scoring"
    /\ UNCHANGED <<fillInput, fillFailing, fillUseAI, postTasks, postResults,
                   commentTasks, commentResults, overtaken>>
    /\ UNCHANGED <<controlVars, engineVars, scoreVars, raceVars, timingVars, selectorVars>>

NextFill ==
    \/ \E i \in 1..Len(postTasks) : TitleReturns(i)
    \/ \E i \in 1..Len(postTasks) : BodyReturns(i)
    \/ StartCommentTexts
    \/ \E j \in 1..Len(commentTasks) : CommentResolves(j)
    \/ ScoreFilled

SpecFill == InitFill /\ [][NextFill]_vars

\* the text an item has when its call failed
IsFallback(text, id) ==
    \/ text = EmptyText
    \/ text.origin \in {"template", "pattern"} /\ text.for = id

\* the part of the batch behind a call
FilledPart(call) ==
    CASE call[1] = "title" -> postResults[call[2]].title
      [] call[1] = "body" -> postResults[call[2]].body
      [] call[1] = "comment" -> commentResults[call[2]].comment_text

ItemOf(call) ==
    IF call[1] = "comment" THEN fillInput.comments[call[2]].comment_id
    ELSE fillInput.posts[call[2]].post_id

\* C17: whichever text-synthesis calls of an attempt fail, the attempt is not
\* aborted and goes on to scoring; in the batch it scores, the item of each failed
\* call has its fallback text and the item of every other call has the text that
\* was generated for it.
C17_FailedCallsFallBackPerItem ==
    /\ fillPc # "thrown"
    /\ fillPc \in {"posts", "comments"} => ENABLED NextFill
    /\ fillPc = "scoring" =>
           \A call \in CallsOf(fillInput.posts, fillInput.comments, fillUseAI) :
               IF call \in fillFailing
               THEN IsFallback(FilledPart(call), ItemOf(call))
               ELSE FilledPart(call) = Generated(ItemOf(call), call[1])

\* scoring is reached after a title call, a body call and a comment call failed
\* while other calls of each kind succeeded
C17_Witness ==
    /\ fillPc = "scoring"
    /\ \A kind \in {"title", "body", "comment"} :
           /\ \E call \in fillFailing : call[1] = kind
           /\ \E call \in CallsOf(fillInput.posts, fillInput.comments, fillUseAI) \ fillFailing :
                  call[1] = kind

\* the post and the comment the fill gives for an input item, from the input and
\* the outcome of the item's own calls alone
FilledPost(i) ==
    LET post == fillInput.posts[i]
    IN  [post EXCEPT !.title = generatePostTitle(<<"title", i>> \notin fillFailing, post),
                     !.body = IF needsBody(post)
                              THEN generatePostBody(<<"body", i>> \notin fillFailing, post)
                              ELSE EmptyText]

FilledComment(j) ==
    LET comment == fillInput.comments[j]
    IN  withText(comment, commentText(fillInput.comments, fillUseAI,
                                      <<"comment", j>> \notin fillFailing, comment))

NoFillPending ==
    /\ AllResolved(postResults)
    /\ AllResolved(commentResults)
    /\ \A i \in 1..Len(postTasks) : postTasks[i].awaiting = "none"
    /\ \A j \in 1..Len(commentTasks) : commentTasks[j] = "none"

\* C18: in whatever order the concurrently issued text-fill calls of an attempt
\* complete, scoring starts only after all of them have resolved, and the batch
\* scored is the same: the posts and the comments are in their input order and each
\* carries the text that was requested for it.
C18_FillIndependentOfCompletionOrder ==
    fillPc = "scoring" =>
        /\ NoFillPending
        /\ postResults = [i \in 1..Len(fillInput.posts) |-> FilledPost(i)]
        /\ commentResults = [j \in 1..Len(fillInput.comments) |-> FilledComment(j)]
        /\ \A i \in 1..Len(postResults) :
               /\ postResults[i].post_id = fillInput.posts[i].post_id
               /\ postResults[i].title.for = postResults[i].post_id
        /\ \A j \in 1..Len(commentResults) :
               /\ commentResults[j].comment_id = fillInput.comments[j].comment_id
               /\ commentResults[j].comment_text.for = commentResults[j].comment_id

\* scoring is reached after callbacks resolved against their issue order among the
\* posts and among the comments, with a failed call among those that went first
C18_Witness ==
    /\ fillPc = "scoring"
    /\ overtaken = {"posts", "comments"}
    /\ <<"title", 2>> \in fillFailing
    /\ <<"comment", 4>> \in fillFailing
    /\ <<"comment", 1>> \notin fillFailing

(***************************************************************************)
(* Phases 1 to 3 of generateCalendarAttempt: the posts are created with    *)
(* the time of their creation, generateComments stamps the comments from   *)
(* those posts, and distributePostsTemporally then moves the posts into    *)
(* the week that starts next Monday.  The comments are passed on as they   *)
(* are (adjustCommentTimestamps is not called).                            *)
(***************************************************************************)

\* when the attempt runs: a Monday at 00:00, a Sunday at 23:59
AttemptClocks == {0, MinutesPerWeek - 1}

\* DAY_DISTRIBUTION, TIME_DISTRIBUTION and randomInt(0, 59) at their ends: the day
\* offset, the hour and the minutes drawn for a post
TimeDraws ==
    {[dayOffset |-> 0, hour |-> 8, minutes |-> 0],
     [dayOffset |-> 2, hour |-> 16, minutes |-> 30],
     [dayOffset |-> 6, hour |-> 21, minutes |-> 59]}

\* distributePostsTemporally at time clock, with one draw per post
distributePostsTemporally(posts, draws, clock) ==
    [i \in 1..Len(posts) |->
        [posts[i] EXCEPT !.timestamp = getNextMonday(clock) + draws[i].dayOffset * MinutesPerDay
                                       + draws[i].hour * 60 + draws[i].minutes]]

\* Phase 1 has built the posts at time clock; generateComments is called
InitTiming ==
    /\ \E clock \in AttemptClocks :
           /\ ControlIdle(EmptyState, clock)
           /\ \E n \in 1..MaxPosts : argPosts = [i \in 1..n |-> DraftPost(i, clock)]
    /\ ScoreIdle
    /\ AuxIdle
    /\ argPersonas \in {<<Alice, Bob, Carol, Dave>>, <<Alice, Bob>>}
    /\ postIndex = 1
    /\ commentCounter = 1
    /\ allComments = << >>
    /\ engagementLevel = NoLevel
    /\ commenters = << >>

\* Phase 3: posts = distributePostsTemporally(posts)
DistributePostsTemporally(draws) ==
    /\ CommentsReturned
    /\ distributedPosts = << >>
    /\ distributedPosts' = distributePostsTemporally(argPosts, draws, now)
    /\ UNCHANGED <<controlVars, engineVars, scoreVars, raceVars, fillVars, selectorVars>>

NextTiming ==
    \/ NextThread
    \/ \E draws \in [1..Len(argPosts) -> TimeDraws] : DistributePostsTemporally(draws)

SpecTiming == InitTiming /\ [][NextTiming]_vars

\* the post of a comment as the batch carries it
BatchPostOf(comment) ==
    CHOOSE post \in Range(distributedPosts) : post.post_id = comment.post_id

\* C19: in the batch an attempt returns, each initial_response comment is stamped
\* 8 to 25 minutes after the timestamp its post carries in that batch, each addition
\* comment 20 to 40 minutes after it, and no comment is stamped before its post.
C19_CommentsFollowScheduledPost ==
    distributedPosts # << >> =>
        \A i \in 1..Len(allComments) :
            LET comment == allComments[i]
                delay == comment.timestamp - BatchPostOf(comment).timestamp
            IN  /\ comment.role = "initial_response" => delay \in 8..25
                /\ comment.role = "addition" => delay \in 20..40
                /\ delay >= 0

(***************************************************************************)
(* The timing of the replies of a thread.                                  *)
(***************************************************************************)

\* the comment a reply names as its parent
ParentOf(comment) ==
    CHOOSE parent \in Range(allComments) : parent.comment_id = comment.parent_comment_id

HasAgreement(post_id) ==
    \E k \in 1..Len(allComments) :
        allComments[k].post_id = post_id /\ allComments[k].role = "agreement"

\* C20: in every generated thread an agreement comment is stamped 10 to 20 minutes
\* after the initial_response it replies to, and an op_engagement comment 8 to 18
\* minutes after its parent, which is the agreement of the thread if there is one and
\* the initial_response otherwise; so each reply is strictly later than its parent.
C20_RepliesFollowParent ==
    \A i \in 1..Len(allComments) :
        LET comment == allComments[i]
            parent == ParentOf(comment)
            delay == comment.timestamp - parent.timestamp
        IN  /\ comment.role = "agreement"
                 => /\ parent.role = "initial_response"
                    /\ parent.post_id = comment.post_id
                    /\ delay \in 10..20
            /\ comment.role = "op_engagement"
                 => /\ parent.role = (IF HasAgreement(comment.post_id) THEN "agreement"
                                      ELSE "initial_response")
                    /\ parent.post_id = comment.post_id
                    /\ delay \in 8..18
            /\ comment.parent_comment_id # NoParent => comment.timestamp > parent.timestamp

\* a returned batch with a thread in which the author replies to an agreement and a
\* thread in which the author replies to the initial response
C20_Witness ==
    /\ CommentsReturned
    /\ \E i, j \in 1..Len(allComments) :
        /\ allComments[i].role = "op_engagement"
        /\ ParentOf(allComments[i]).role = "agreement"
        /\ allComments[i].timestamp - ParentOf(allComments[i]).timestamp = 18
        /\ ParentOf(allComments[i]).timestamp - ParentOf(ParentOf(allComments[i])).timestamp = 10
        /\ allComments[j].role = "op_engagement"
        /\ ParentOf(allComments[j]).role = "initial_response"
        /\ allComments[j].timestamp - ParentOf(allComments[j]).timestamp = 8


(***************************************************************************)
(* The shape of a thread.                                                  *)
(***************************************************************************)

\* getCommentDepth: the number of parent links followed from comment until a comment
\* without parent, or a parent that is not among all, is reached
RECURSIVE getCommentDepth(_, _)
getCommentDepth(comment, all) ==
    IF comment.parent_comment_id = NoParent THEN 0
    ELSE LET found == {k \in 1..Len(all) : all[k].comment_id = comment.parent_comment_id}
         IN  IF found = {} THEN 1
             ELSE 1 + getCommentDepth(all[CHOOSE k \in found : \A m \in found : k <= m], all)

\* the places in allComments of the thread of a post
ThreadOf(post_id) == {i \in 1..Len(allComments) : allComments[i].post_id = post_id}

WithRole(post_id, role) == {i \in ThreadOf(post_id) : allComments[i].role = role}

\* the personas handed to generateComments are told apart by their usernames
DistinctUsernames(personas) ==
    \A i, j \in 1..Len(personas) : i # j => personas[i].username # personas[j].username

C22_HistoryKeepsLatestWeeks ==
    [][state' # state =>
          /\ Len(state'.history.weeks) <= pruneThreshold
          /\ state'.history.weeks = LastN(commits', Len(state'.history.weeks))
          /\ state'.history.weeks[Len(state'.history.weeks)] = commits'[Len(commits')]
          /\ Len(commits') = Len(commits) + 1
          /\ Len(state'.history.weeks) =
                 IF Len(state.history.weeks) + 1 > pruneThreshold THEN maxWeeksInHistory
                 ELSE Len(state.history.weeks) + 1]_vars

\* the history has been cut twice, at the 16th and at the 20th commit, and holds the
\* 12 batches committed last
C22_Witness ==
    /\ Len(commits) = 20
    /\ Len(state.history.weeks) = maxWeeksInHistory
    /\ state.history.weeks[1] = commits[9]
    /\ state.history.weeks[1] # commits[1]


(***************************************************************************)
(* The capped logs over many commits.  What a log would hold uncut is read *)
(* off the record of all committed batches.                                *)
(***************************************************************************)

\* bound: the commits made
MaxLogCommits == 5

\* the batches committed: a batch of one post, and batches of 13 posts in which dave
\* has no part
LogShapes == {"small", "large", "shifted"}

\* a topic and a title as the StateManager sees them: values it stores and never
\* looks into, different for every post of every batch
LogTopic(serial, i) == <<"topic", serial, i>>
LogTitle(serial, i) == <<"title", serial, i>>

LogAuthors == <<"alice", "bob", "carol">>

\* post i of the batch with the given serial number: venues and tags in turn
LogPost(shape, serial, i, clock) ==
    LET shift == IF shape = "shifted" THEN 1 ELSE 0
    IN  Post(generateId("P", i),
             IF (i + shift) % 2 = 1 THEN "r/PowerPoint" ELSE "r/consulting",
             IF shape = "small" THEN "dave" ELSE LogAuthors[((i + shift) % 3) + 1],
             clock + i, IF (i + shift) % 3 = 0 THEN <<"K1", "K2">> ELSE <<"K1">>,
             LogTopic(serial, i), LogTitle(serial, i), << >>)

\* the thread of post i as generateCommentThread builds it from two commenters and
\* an OP reply, the gaps within the ranges of the randomMinutes calls
LogThread(shape, serial, i, clock) ==
    LET post == LogPost(shape, serial, i, clock)
        shift == IF shape = "shifted" THEN 1 ELSE 0
        first == IF shape = "small" THEN "alice" ELSE LogAuthors[((i + shift + 1) % 3) + 1]
        second == IF shape = "small" THEN "bob" ELSE LogAuthors[((i + shift + 2) % 3) + 1]
        t1 == post.timestamp + 8 + (i % 18)
        t2 == t1 + 10 + ((serial + i) % 11)
        t3 == t2 + 8 + ((3 * serial + i + shift) % 11)
    IN  <<Comment(generateId("C", 3 * i - 2), post.post_id, NoParent, first, t1,
                  "initial_response", << >>),
          Comment(generateId("C", 3 * i - 1), post.post_id, generateId("C", 3 * i - 2),
                  second, t2, "agreement", << >>),
          Comment(generateId("C", 3 * i), post.post_id, generateId("C", 3 * i - 1),
                  post.author_username, t3, "op_engagement", << >>)>>

\* the sequences ss[lo], ..., ss[hi] joined, by halves
RECURSIVE JoinFrom(_, _, _)
JoinFrom(ss, lo, hi) ==
    IF lo > hi THEN << >>
    ELSE IF lo = hi THEN ss[lo]
    ELSE JoinFrom(ss, lo, (lo + hi) \div 2) \o JoinFrom(ss, (lo + hi) \div 2 + 1, hi)

Join(ss) == JoinFrom(ss, 1, Len(ss))

\* a scored batch handed to saveCalendar
LogBatch(shape, serial, clock) ==
    LET n == IF shape = "small" THEN 1 ELSE 13
        tenths == IF shape = "small" THEN 70 ELSE 90
    IN  [weekId |-> generateWeekId(clock),
         posts |-> [i \in 1..n |-> LogPost(shape, serial, i, clock)],
         comments |-> Join([i \in 1..n |-> LogThread(shape, serial, i, clock)]),
         run |-> serial,
         qualityScore |-> [overall |-> tenths, naturalness |-> tenths,
                           distribution |-> tenths, consistency |-> tenths,
                           diversity |-> tenths, timing |-> tenths, flags |-> << >>]]

\* saveCalendar(calendar) stores the batch and commits it to the StateStore
SaveBatch(shape) ==
    /\ pc = "idle"
    /\ Len(commits) < MaxLogCommits
    /\ \E batch \in {LogBatch(shape, Len(commits) + 1, now)} :
           /\ calendars' = Put(calendars, batch.weekId, batch)
           /\ state' = updateStateWithCalendar(state, batch, now)
           /\ commits' = Append(commits, batch)
    /\ UNCHANGED <<now, pc, minQualityScore, pool, attempt, bestCalendar, bestScore,
                   saving, outcome, log, before, returned, runs, saves>>
    /\ UNCHANGED nonControlVars

NextLogs == \E shape \in LogShapes : SaveBatch(shape)

SpecLogs == Init /\ [][NextLogs]_vars

\* the entries pruneOldData keeps of the topics of a venue, of the contexts of a
\* tag and of the timing-gap log
topicsLimit == 10
contextsLimit == 20
timingLimit == 100

\* the posts of all committed batches, in commit order
CommittedPosts == Join([c \in 1..Len(commits) |-> commits[c].posts])

\* every topic posted in the venue
TopicsPosted(subreddit) ==
    Join([i \in 1..Len(CommittedPosts) |->
             IF CommittedPosts[i].subreddit = subreddit THEN <<CommittedPosts[i].topic>>
             ELSE << >>])

\* every title posted with the tag, once per mention of the tag
ContextsPosted(keywordId) ==
    LET mentions(post) ==
            Join([j \in 1..Len(post.keyword_ids) |->
                     IF post.keyword_ids[j] = keywordId THEN <<post.title>> ELSE << >>])
    IN  Join([i \in 1..Len(CommittedPosts) |-> mentions(CommittedPosts[i])])

\* every venue posted in
VenuesPosted == [i \in 1..Len(CommittedPosts) |-> CommittedPosts[i].subreddit]

\* every gap between successive comments of a post
GapsPosted ==
    LET gaps(cal) == Join([i \in 1..Len(cal.posts) |-> commentGaps(cal, cal.posts[i])])
    IN  Join([c \in 1..Len(commits) |-> gaps(commits[c])])

\* C23: after every commit each capped log holds its most recent entries, in order:
\* the last 10 topics at most of each venue, the last 20 contexts at most of each
\* tag, the last 50 entries at most of the venue rotation and the last 100 at most
\* of the timing gaps.
C23_CappedLogsKeepLatest ==
    /\ \A v \in DOMAIN state.quotas.subredditUsage :
           /\ Len(state.quotas.subredditUsage[v].topicsUsed) <= topicsLimit
           /\ state.quotas.subredditUsage[v].topicsUsed
                = LastN(TopicsPosted(v), topicsLimit)
    /\ \A k \in DOMAIN state.quotas.keywordUsage :
           /\ Len(state.quotas.keywordUsage[k].contexts) <= contextsLimit
           /\ state.quotas.keywordUsage[k].contexts
                = LastN(ContextsPosted(k), contextsLimit)
    /\ Len(state.patterns.subredditRotation) <= rotationLimit
    /\ state.patterns.subredditRotation = LastN(VenuesPosted, rotationLimit)
    /\ Len(state.patterns.timingPatterns) <= timingLimit
    /\ state.patterns.timingPatterns = LastN(GapsPosted, timingLimit)

\* every log has been cut: a venue with more than 10 topics posted, a tag with more
\* than 20 contexts, more than 50 venues and more than 100 gaps posted
C23_Witness ==
    /\ \E v \in DOMAIN state.quotas.subredditUsage :
           /\ Len(TopicsPosted(v)) > topicsLimit
           /\ Len(state.quotas.subredditUsage[v].topicsUsed) = topicsLimit
    /\ \E k \in DOMAIN state.quotas.keywordUsage :
           /\ Len(ContextsPosted(k)) > contextsLimit
           /\ Len(state.quotas.keywordUsage[k].contexts) = contextsLimit
    /\ Len(VenuesPosted) > rotationLimit
    /\ Len(state.patterns.subredditRotation) = rotationLimit
    /\ Len(GapsPosted) > timingLimit
    /\ Len(state.patterns.timingPatterns) = timingLimit


(***************************************************************************)
(* The running averages of the quality metrics over many commits.          *)
(***************************************************************************)

\* bound: the commits made
MaxScoredCommits == 17

\* the dimension scores a committed batch comes with, in tenths: the naturalness,
\* with the consistency half a point above and the distribution a point below
BatchScores == {70, 80, 90}

ScoredBatch(tenths, serial, clock) ==
    [LogBatch("small", serial, clock) EXCEPT
        !.qualityScore = [@ EXCEPT !.overall = tenths, !.naturalness = tenths,
                                   !.consistency = tenths + 5,
                                   !.distribution = tenths - 10]]

\* saveCalendar(calendar) stores a scored batch and commits it; the batches followed
\* are those whose scores do not go down from one commit to the next
SaveScored(tenths) ==
    /\ pc = "idle"
    /\ Len(commits) < MaxScoredCommits
    /\ commits # << >> => tenths >= commits[Len(commits)].qualityScore.naturalness
    /\ \E batch \in {ScoredBatch(tenths, Len(commits) + 1, now)} :
           /\ calendars' = Put(calendars, batch.weekId, batch)
           /\ state' = updateStateWithCalendar(state, batch, now)
           /\ commits' = Append(commits, batch)
    /\ UNCHANGED <<now, pc, minQualityScore, pool, attempt, bestCalendar, bestScore,
                   saving, outcome, log, before, returned, runs, saves>>
    /\ UNCHANGED nonControlVars

NextAverages == \E tenths \in BatchScores : SaveScored(tenths)

SpecAverages == Init /\ [][NextAverages]_vars

\* the arithmetic mean of the tenths, as the nearest double
MeanOfTenths(tenths) == FDivInt(Lit(SumSeq(tenths), 10), Len(tenths))

\* x and y differ by less than a thousandth
Close(x, y) == DLess(FSub(x, y), Lit(1, 1000)) /\ DLess(FSub(y, x), Lit(1, 1000))

NaturalnessCommitted == [c \in 1..Len(commits) |-> commits[c].qualityScore.naturalness]
ConsistencyCommitted == [c \in 1..Len(commits) |-> commits[c].qualityScore.consistency]
DistributionCommitted == [c \in 1..Len(commits) |-> commits[c].qualityScore.distribution]

\* C24: after any number n of commits from the empty StateStore, long enough to
\* prune the history or not, each of averageNaturalnessScore,
\* averagePersonaConsistency and averageDistributionBalance is the arithmetic mean
\* of that dimension's score over all n committed batches (to within a thousandth).
C24_AveragesAreMeansOfAllCommits ==
    commits # << >> =>
        /\ Close(state.qualityMetrics.averageNaturalnessScore,
                 MeanOfTenths(NaturalnessCommitted))
        /\ Close(state.qualityMetrics.averagePersonaConsistency,
                 MeanOfTenths(ConsistencyCommitted))
        /\ Close(state.qualityMetrics.averageDistributionBalance,
                 MeanOfTenths(DistributionCommitted))


(***************************************************************************)
(* The consecutive-weeks counter of the persona quotas.                    *)
(***************************************************************************)

\* the personas of a batch: the authors of its posts and of its comments
PersonasOf(cal) ==
    {cal.posts[i].author_username : i \in 1..Len(cal.posts)}
      \cup {cal.comments[i].username : i \in 1..Len(cal.comments)}

\* the number of most recent consecutive batches of cs the persona appears in
Streak(username, cs) ==
    Cardinality({k \in 1..Len(cs) :
                    \A j \in (Len(cs) - k + 1)..Len(cs) : username \in PersonasOf(cs[j])})

\* C25: a commit sets the consecutiveWeeks of every persona that has a quota record
\* to its previous value plus 1 (a persona without record counting from 0) if the
\* persona is an author or a commenter of the committed batch, and to 0 otherwise; so
\* it is the number of most recent consecutive committed batches with the persona.
C25_ConsecutiveWeeksCountsStreak ==
    [][state' # state =>
          \A username \in DOMAIN state'.quotas.personaUsage :
              LET previous == IF username \in DOMAIN state.quotas.personaUsage
                            THEN state.quotas.personaUsage[username].consecutiveWeeks
                            ELSE 0
                  after == state'.quotas.personaUsage[username].consecutiveWeeks
              IN  /\ after = IF username \in PersonasOf(commits'[Len(commits')])
                             THEN previous + 1 ELSE 0
                  /\ after = Streak(username, commits')]_vars

\* three commits: a persona of all three batches, and a persona of the first two
\* whose counter the third commit has reset
C25_Witness ==
    /\ Len(commits) = 3
    /\ \E username \in DOMAIN state.quotas.personaUsage :
           /\ state.quotas.personaUsage[username].consecutiveWeeks = 3
           /\ \A c \in 1..3 : username \in PersonasOf(commits[c])
    /\ \E username \in DOMAIN state.quotas.personaUsage :
           /\ state.quotas.personaUsage[username].consecutiveWeeks = 0
           /\ username \in PersonasOf(commits[1]) \cap PersonasOf(commits[2])
           /\ username \notin PersonasOf(commits[3])


(***************************************************************************)
(* The ranking of the commenters and the text of the post.  Phase 2 of     *)
(* generateCalendarAttempt ranks the commenters of each post; Phase 4      *)
(* writes the title and the body of the posts.                             *)
(***************************************************************************)

\* what generatePostTexts can write for a post: the words of the title and of the
\* body (a post that needs no body gets the empty string)
TextDraws ==
    {[title |-> <<"fixing", "slides", "before", "the", "deadline">>, body |-> << >>],
     [title |-> <<"quarterly", "charts">>, body |-> <<"fonts", "and", "templates">>],
     [title |-> <<"remote", "standup", "formats">>, body |-> << >>]}

\* Phase 4: posts = await generatePostTexts(posts, params)
GeneratePostTexts(draws) ==
    /\ distributedPosts # << >>
    /\ \A i \in 1..Len(distributedPosts) : distributedPosts[i].title = << >>
    /\ distributedPosts' = [i \in 1..Len(distributedPosts) |->
                               [distributedPosts[i] EXCEPT !.title = draws[i].title,
                                                           !.body = draws[i].body]]
    /\ UNCHANGED <<controlVars, engineVars, scoreVars, raceVars, fillVars, selectorVars>>

NextRanking ==
    \/ NextTiming
    \/ \E draws \in [1..Len(argPosts) -> TextDraws] : GeneratePostTexts(draws)

SpecRanking == InitTiming /\ [][NextRanking]_vars

\* the attempt has written the texts of its posts
PostTextsWritten ==
    /\ distributedPosts # << >>
    /\ \A i \in 1..Len(distributedPosts) : distributedPosts[i].title # << >>

\* a pain-point word of the persona, longer than 4 characters, occurs in the title or
\* the body of the post
OverlapsPostText(persona, post) ==
    \E i \in 1..Len(persona.painPoints) :
        /\ Len(persona.painPoints[i]) > 4
        /\ persona.painPoints[i] \in Range(post.title) \cup Range(post.body)

\* persona.voiceProfile.authenticity[post.subreddit] || 0.5
VenueScore(persona, post) ==
    IF post.subreddit \in DOMAIN persona.authenticity
         /\ persona.authenticity[post.subreddit] # 0
    THEN Lit(persona.authenticity[post.subreddit], 10)
    ELSE Lit(5, 10)

\* the personas ranked for post p of the attempt: all but its author
Candidates(p) ==
    {c \in 1..Len(argPersonas) : argPersonas[c].username # argPosts[p].author_username}

\* C26: when the commenters of a post are ranked inside a generation attempt, a
\* candidate with a pain-point word in the title or body of the post is given the
\* authenticity min(venue score + 0.2, 1.0) and a candidate without one the
\* authenticity venue score * 0.8, the title and body being those the attempt gives
\* the post.
C26_RankingRewardsOverlapWithPostText ==
    PostTextsWritten =>
        \A p \in 1..Len(argPosts) :
            ThreadOf(argPosts[p].post_id) # {} =>
                \A c \in Candidates(p) :
                    LET ranked == calculateCommenterAuthenticity(argPersonas[c], argPosts[p])
                        score == VenueScore(argPersonas[c], distributedPosts[p])
                    IN  ranked = IF OverlapsPostText(argPersonas[c], distributedPosts[p])
                                 THEN Finer(DMin(FAdd(score, Lit(2, 10)), One))
                                 ELSE FMul(score, Lit(8, 10))


(***************************************************************************)
(* The topic selector (lib/engines/post-engine.ts).  A text is held as its *)
(* lower-case words.                                                       *)
(***************************************************************************)

\* the venues of SUBREDDIT_CULTURE_MAP that the calls name
MappedSubreddits == {"r/PowerPoint", "r/consulting", "r/marketing", "r/startups"}

\* kw.includes(term) for one of relevantTerms ('presentation', 'slides', 'deck',
\* 'design', 'format', 'visual'): the words of the texts below that contain one
includesRelevantTerm(kw) ==
    kw \in {"slides", "decks", "design", "formatting", "presentation", "visuals"}

\* text.toLowerCase().split(/\s+/).filter((word) => word.length > 4)
extractKeywordsFromText(text) == SelectSeqBy(text, {w \in Range(text) : Len(w) > 4})

\* extractPainPoints: the pain points of a persona with their keywords
extractPainPoints(painPoints) ==
    [i \in 1..Len(painPoints) |->
        [text |-> painPoints[i], keywords |-> extractKeywordsFromText(painPoints[i])]]

isRelevantToSubreddit(painPoint, subreddit) ==
    IF subreddit \notin MappedSubreddits THEN TRUE
    ELSE \E k \in 1..Len(painPoint.keywords) : includesRelevantTerm(painPoint.keywords[k])

\* array[index] of JavaScript, index counted from 0
undefined == [text |-> <<"undefined">>, keywords |-> << >>]
ElementAt(array, index) == IF index + 1 \in 1..Len(array) THEN array[index + 1] ELSE undefined

\* findSimilarTopics(pp.text, usedTopics, 0.7).length === 0
isFresh(painPoint, usedTopics) ==
    \A t \in 1..Len(usedTopics) : ~areTopicsSimilar(painPoint.text, usedTopics[t], 7, 10)

\* selectFreshPainPoint; order is the permutation shuffle draws and index the number
\* randomInt(0, painPoints.length - 1) draws
selectFreshPainPoint(painPoints, usedTopics, order, index) ==
    LET fresh == {k \in 1..Len(painPoints) : isFresh(painPoints[order[k]], usedTopics)}
    IN  IF fresh # {} THEN painPoints[order[CHOOSE k \in fresh : \A m \in fresh : k <= m]]
        ELSE ElementAt(painPoints, index)

\* the pain points generateTopics hands to selectFreshPainPoint
relevantPainPoints(args) ==
    LET painPoints == extractPainPoints(args.painPoints)
    IN  SelectSeqBy(painPoints, {pp \in Range(painPoints) :
                                    isRelevantToSubreddit(pp, args.subreddit)})

\* randomInt(0, max): Math.floor(Math.random() * (max + 1)), which is 0 for max = -1
RandomIndexes(max) == IF max < 0 THEN {0} ELSE 0..max

\* integrateKeywords and createPostFromDraft read topic.painPoint.text
readsPainPointText(painPoint) == IF painPoint = undefined THEN "TypeError" ELSE "read"

\* the pain-point lists of the personas assigned
PainPointLists ==
    {<<TopicSlides, TopicCharts>>, <<TopicCharts, TopicFonts>>,
     <<TopicSlides, TopicSlidesAgain>>, <<TopicCharts>>,
     <<TopicSlides, <<"formatting", "slides", "takes", "hours">>, TopicFonts>>}

\* the topics already used in the venue
UsedTopicLists ==
    {<< >>, <<TopicSlides>>, <<TopicCharts, TopicSlidesAgain>>,
     <<TopicSlides, <<"formatting", "slides", "takes", "hours">>>>}

\* generateTopics is called with one assignment
InitTopics ==
    /\ ControlIdle(EmptyState, 0) /\ EngineIdle /\ ScoreIdle
    /\ RaceIdle /\ FillIdle /\ TimingIdle
    /\ \E painPoints \in PainPointLists, used \in UsedTopicLists,
          subreddit \in {"r/PowerPoint", "r/consulting", "r/Canva"} :
           selectorArgs = [selector |-> "generateTopics", painPoints |-> painPoints,
                           subreddit |-> subreddit, usedTopics |-> used]
    /\ selectorResult = NoResult

\* generateTopics returns the plan of the assignment, and the attempt goes on to
\* integrateKeywords
GenerateTopics(order, index) ==
    /\ selectorArgs.selector = "generateTopics"
    /\ selectorResult = NoResult
    /\ LET painPoint == selectFreshPainPoint(relevantPainPoints(selectorArgs),
                                             selectorArgs.usedTopics, order, index)
       IN  selectorResult' = [returned |-> TRUE, painPoint |-> painPoint,
                              attempt |-> readsPainPointText(painPoint)]
    /\ UNCHANGED <<controlVars, engineVars, scoreVars, raceVars, fillVars, timingVars,
                   selectorArgs>>

NextTopics ==
    \E order \in Permutations(1..Len(relevantPainPoints(selectorArgs))),
       index \in RandomIndexes(Len(relevantPainPoints(selectorArgs)) - 1) :
        GenerateTopics(order, index)

SpecTopics == InitTopics /\ [][NextTopics]_vars

\* the relevant pain points of the call that are similar to no used topic
FreshCandidates ==
    {pp \in Range(relevantPainPoints(selectorArgs)) : isFresh(pp, selectorArgs.usedTopics)}

\* C27: for an assignment whose persona has at least one pain point, the topic that
\* generateTopics yields is one of the persona's pain points: a venue-relevant one
\* with combined similarity below 0.7 to every topic used in the venue if there is
\* one, and otherwise one of the candidates; it is never undefined, and reading it
\* does not make the attempt fail.
C27_TopicIsAPainPoint ==
    (selectorResult # NoResult /\ selectorArgs.painPoints # << >>) =>
        /\ selectorResult.painPoint # undefined
        /\ selectorResult.painPoint.text \in Range(selectorArgs.painPoints)
        /\ FreshCandidates # {} => selectorResult.painPoint \in FreshCandidates
        /\ FreshCandidates = {}
             => selectorResult.painPoint \in Range(relevantPainPoints(selectorArgs))
        /\ selectorResult.attempt # "TypeError"


(***************************************************************************)
(* The rest bonus of the persona assignment.                               *)
(***************************************************************************)

\* calculateRestBonus at time clock, in tenths
calculateRestBonus(usage, clock) ==
    LET sinceLastUse == clock - usage.lastUsed
    IN  IF sinceLastUse >= 14 * MinutesPerDay THEN 10
        ELSE IF sinceLastUse >= 7 * MinutesPerDay THEN 6
        ELSE IF sinceLastUse >= 3 * MinutesPerDay THEN 3
        ELSE IF usage.consecutiveWeeks >= 3 THEN -3
        ELSE 0

\* when assignPersonasToSubreddits runs: on the 20th day
AssignmentClock == 20 * MinutesPerDay

\* the idle times of the personas scored, in minutes, at the ends of the bands
IdleTimes ==
    {0, 1, 3 * MinutesPerDay - 1, 3 * MinutesPerDay, 7 * MinutesPerDay - 1,
     7 * MinutesPerDay, 14 * MinutesPerDay - 1, 14 * MinutesPerDay, AssignmentClock}

\* PERSONA_BURNOUT_THRESHOLDS.consecutiveWeeks is 5; the counters tried go beyond it
ConsecutiveWeeks == 0..6

\* assignPersonasToSubreddits scores a persona with the given quota record
InitRest ==
    /\ ControlIdle(EmptyState, AssignmentClock) /\ EngineIdle /\ ScoreIdle
    /\ RaceIdle /\ FillIdle /\ TimingIdle
    /\ \E idle \in IdleTimes, weeks \in ConsecutiveWeeks :
           selectorArgs = [selector |-> "calculateRestBonus",
                           usage |-> [postsAsOP |-> << >>, postsAsCommenter |-> << >>,
                                      lastUsed |-> AssignmentClock - idle,
                                      consecutiveWeeks |-> weeks]]
    /\ selectorResult = NoResult

\* calculateRestBonus(usage) returns
CalculateRestBonus ==
    /\ selectorArgs.selector = "calculateRestBonus"
    /\ selectorResult = NoResult
    /\ selectorResult' = [returned |-> TRUE,
                          restBonus |-> calculateRestBonus(selectorArgs.usage, now)]
    /\ UNCHANGED <<controlVars, engineVars, scoreVars, raceVars, fillVars, timingVars,
                   selectorArgs>>

NextRest == CalculateRestBonus

SpecRest == InitRest /\ [][NextRest]_vars

\* the bonus of the idle-days band, in tenths
BandBonus(idle) ==
    IF idle >= 14 * MinutesPerDay THEN 10
    ELSE IF idle >= 7 * MinutesPerDay THEN 6
    ELSE IF idle >= 3 * MinutesPerDay THEN 3
    ELSE 0

\* C28: the rest bonus is 1.0 at 14 idle days or more, 0.6 at 7 or more, 0.3 at 3 or
\* more and 0 below, and whenever the consecutive-weeks counter of the persona is 3
\* or more the penalty of 0.3 is applied, in every band: the result is then the
\* band's bonus less 0.3, or -0.3.
C28_RestBonusWithPenaltyInEveryBand ==
    selectorResult # NoResult =>
        LET usage == selectorArgs.usage
            band == BandBonus(now - usage.lastUsed)
        IN  IF usage.consecutiveWeeks >= 3
            THEN selectorResult.restBonus \in {band - 3, -3}
            ELSE selectorResult.restBonus = band


(***************************************************************************)
(* The stored batches and the history.                                     *)
(***************************************************************************)

\* storage.loadCalendar(weekId) returns a batch with the posts and comments of cal
Loadable(cal) ==
    /\ cal.weekId \in DOMAIN calendars
    /\ calendars[cal.weekId].posts = cal.posts
    /\ calendars[cal.weekId].comments = cal.comments

\* C29: after any sequence of generateAndSaveCalendar runs, every batch recorded in
\* the history of the StateStore is loadable from storage under its weekId with the
\* same posts and comments, and the number of stored batches is the number of
\* commits.
C29_EveryCommittedBatchStaysStored ==
    (pc = "idle" /\ saves = 0) =>
        /\ \A i \in 1..Len(state.history.weeks) : Loadable(state.history.weeks[i])
        /\ Cardinality(DOMAIN calendars) = Len(commits)


(***************************************************************************)
(* saveCalendar when the persistence collaborator fails.  The storage is a *)
(* KV or JSON store: state is what it holds, and cache[1] is the field     *)
(* state of the one StateManager, the object updateStateWithCalendar       *)
(* mutates.  A call of storage.saveCalendar or storage.saveState either    *)
(* writes or throws without having written.                                *)
(***************************************************************************)
\* one StateManager that has not loaded the state, and nothing stored
InitFailure ==
    /\ ControlIdle(EmptyState, 0) /\ EngineIdle /\ ScoreIdle
    /\ managerOf = << >>
    /\ cache = <<NoState>>
    /\ latest = << >>
    /\ raceLoaded = << >>
    /\ racePc = << >>
    /\ raceBatch = << >>
    /\ raceLog = << >>
    /\ FillIdle /\ TimingIdle /\ SelectorIdle

\* generateAndSaveCalendar: generateWeeklyCalendar loads the state into the
\* StateManager and returns the batch of draft d; saveCalendar(calendar) is next
GenerateWeeklyCalendar(d) ==
    /\ pc = "idle"
    /\ runs < MaxRuns
    /\ runs' = runs + 1
    /\ cache' = <<state>>
    /\ \E calendar \in {generateCalendarAttempt(Drafts[d], state, now, runs + 1)} :
           /\ calendar.qualityScore.overall > 0
           /\ saving' = calendar
           /\ outcome' = [kind |-> "calendar", calendar |-> calendar]
           /\ returned' = returned \cup {calendar}
    /\ before' = [state |-> state, calendars |-> calendars]
    /\ pc' = "saving"
    /\ UNCHANGED <<state, calendars, now, minQualityScore, pool, attempt, bestCalendar,
                   bestScore, log, commits, saves>>
    /\ UNCHANGED <<managerOf, latest, raceLoaded, racePc, raceBatch, raceLog>>
    /\ UNCHANGED <<engineVars, scoreVars, fillVars, timingVars, selectorVars>>

\* saveCalendar: storage.saveCalendar(calendar) writes the batch document
StoreCalendar ==
    /\ pc = "saving"
    /\ calendars' = Put(calendars, saving.weekId, saving)
    /\ pc' = "updating"
    /\ UNCHANGED <<state, now, minQualityScore, pool, attempt, bestCalendar, bestScore,
                   saving, outcome, log, before, commits, returned, runs, saves>>
    /\ UNCHANGED nonControlVars

\* saveCalendar: storage.saveCalendar(calendar) throws, and saveCalendar with it
StoreCalendarFails ==
    /\ pc = "saving"
    /\ outcome' = [kind |-> "error", step |-> "saveCalendar", calendar |-> saving]
    /\ saving' = NoCalendar
    /\ pc' = "idle"
    /\ UNCHANGED <<state, calendars, now, minQualityScore, pool, attempt, bestCalendar,
                   bestScore, log, before, commits, returned, runs, saves>>
    /\ UNCHANGED nonControlVars

\* saveCalendar: updateStateWithCalendar updates the object getState returns, which
\* is the one cached, and saveState writes it back
UpdateAndSaveState ==
    /\ pc = "updating"
    /\ \E updated \in {updateStateWithCalendar(getState(cache[1], state), saving, now)} :
           /\ cache' = <<updated>>
           /\ state' = updated
    /\ commits' = Append(commits, saving)
    /\ saving' = NoCalendar
    /\ pc' = "idle"
    /\ UNCHANGED <<calendars, now, minQualityScore, pool, attempt, bestCalendar,
                   bestScore, outcome, log, before, returned, runs, saves>>
    /\ UNCHANGED <<managerOf, latest, raceLoaded, racePc, raceBatch, raceLog>>
    /\ UNCHANGED <<engineVars, scoreVars, fillVars, timingVars, selectorVars>>

\* saveCalendar: updateStateWithCalendar updates the cached object, then
\* storage.saveState throws in saveState, before this.state is assigned
SaveStateFails ==
    /\ pc = "updating"
    /\ cache' = <<updateStateWithCalendar(getState(cache[1], state), saving, now)>>
    /\ outcome' = [kind |-> "error", step |-> "saveState", calendar |-> saving]
    /\ saving' = NoCalendar
    /\ pc' = "idle"
    /\ UNCHANGED <<state, calendars, now, minQualityScore, pool, attempt, bestCalendar,
                   bestScore, log, before, commits, returned, runs, saves>>
    /\ UNCHANGED <<managerOf, latest, raceLoaded, racePc, raceBatch, raceLog>>
    /\ UNCHANGED <<engineVars, scoreVars, fillVars, timingVars, selectorVars>>

NextFailure ==
    \/ \E d \in 1..Len(Drafts) : GenerateWeeklyCalendar(d)
    \/ StoreCalendar
    \/ StoreCalendarFails
    \/ UpdateAndSaveState
    \/ SaveStateFails
    \/ AdvanceClock

SpecFailure == InitFailure /\ [][NextFailure]_vars

\* the StateStore st has the batch in its history
Reflects(st, batch) ==
    /\ st # NoState
    /\ \E i \in 1..Len(st.history.weeks) : st.history.weeks[i] = batch

\* the batch document is what storage holds under the weekId of the batch
Stored(batch) == batch.weekId \in DOMAIN calendars /\ calendars[batch.weekId] = batch

\* C30: when storing the batch document or writing back the StateStore has failed
\* during saveCalendar, neither the persisted StateStore nor the cached StateStore
\* of the StateManager reflects the batch, and the batch document is not left
\* stored without the matching state update.
C30_CommitIsAllOrNothing ==
    (pc = "idle" /\ outcome.kind = "error") =>
        /\ ~Reflects(state, outcome.calendar)
        /\ ~Reflects(cache[1], outcome.calendar)
        /\ Stored(outcome.calendar) => Reflects(state, outcome.calendar)

====
